---- MODULE Spec2Model ----
(***************************************************************************)
(* Resume scoring engine: the keyword catalog (src/domain_keywords.py),    *)
(* the scorer pipeline (src/resume_scorer.py), the text extractor          *)
(* (src/text_extractor.py) and the wizard of the application               *)
(* (src/unnamed/part_000).                                                 *)
(*                                                                         *)
(* Strings.  A Python string is modelled as a sequence of atoms; an atom   *)
(* is a maximal run of non-blank characters and is written as a TLA+       *)
(* string.  Consecutive atoms are separated by exactly one blank, so the   *)
(* atom "" between two others stands for two adjacent blanks.  Raw input   *)
(* atoms are separated by one whitespace run of any kind (blank, tab,      *)
(* newline), which _clean_text collapses to one blank.  Numbers with a     *)
(* fractional part are kept as integers in tenths (names ending in 10).    *)
(***************************************************************************)
EXTENDS Integers, Sequences, FiniteSets, TLC

VARIABLES
    domains,    \* DomainKeywords.domains: key -> [name, keywords]
    call,       \* the last operation called, with its arguments
    ret,        \* what the last operation returned or raised
    idem,       \* "first" | "same" | "differs": a score_resume call that
                \* repeats the previous call compared with that call's result
    app         \* the application: st.session_state, the file in the
                \* uploader, the position of the run of the upload page and
                \* what the run has done and shown so far

vars == <<domains, call, ret, idem, app>>

--------------------------------------------------------------------------
(* Bounds of the model *)

\* longest keyword list handed to add_custom_keywords
MaxAddLen == 2
\* most keywords that the additions of threads leave in a list on top of its
\* initial ones before further threads are started
MaxAdded == 2
\* most fragments concatenated into one resume text
MaxFragments == 2

--------------------------------------------------------------------------
(* Python values *)

Return(v) == [status |-> "ok", value |-> v]
Raise(e) == [status |-> e, value |-> <<>>]

Range(s) == {s[i] : i \in 1..Len(s)}

\* round(n / d) to the nearest integer, ties to the even neighbour, as
\* Python's round does (n >= 0, d > 0)
RoundDiv(n, d) ==
    LET q == n \div d
        r == n % d
    IN  IF 2 * r < d THEN q
        ELSE IF 2 * r > d THEN q + 1
        ELSE IF q % 2 = 0 THEN q ELSE q + 1

--------------------------------------------------------------------------
(* Tables: str methods and regular expressions of the source, evaluated   *)
(* on the atoms of the model                                              *)

\* an atom of 5000 digits
BigNumber ==
    LET d500 == "11111111111111111111111111111111111111111111111111111111111111111111111111111111111111111111111111111111111111111111111111111111111111111111111111111111111111111111111111111111111111111111111111111111111111111111111111111111111111111111111111111111111111111111111111111111111111111111111111111111111111111111111111111111111111111111111111111111111111111111111111111111111111111111111111111111111111111111111111111111111111111111111111111111111111111111111111111111111111111111111111111111111111111111"
    IN  d500 \o d500 \o d500 \o d500 \o d500 \o d500 \o d500 \o d500 \o d500 \o d500

\* the atoms of the model that each regular expression of the scorer matches
\* (with re.search unless the comment says where in the atom)
Atoms ==
    [
     \* atoms that [:]* matches whole (resume_scorer.py:134)
     Colon |->
        {":"},
     \* \b[A-Z][a-z]+ at the end of the atom (resume_scorer.py:855)
     CapTail |->
        {"Acme", "Corp", "Doe", "Education", "Excel", "Experience", "Foo",
         "Jane", "Skills", "Summary"},
     \* [A-Z][a-z]+\b at the start of the atom (resume_scorer.py:855)
     CapHead |->
        {"Acme", "Corp", "Doe", "Education", "Excel", "Experience", "Foo",
         "Jane", "Skills", "Summary"},
     \* \b[\w\.-]+@[\w\.-]+\.\w+\b (resume_scorer.py:858)
     Email |->
        {"jane@mail.com"},
     \* one of phone_patterns inside the atom (resume_scorer.py:861)
     Phone |->
        {"555-123-4567"},
     \* \(\d{3}\) at the end of the atom (resume_scorer.py:864)
     PhoneArea |->
    {},
     \* \d{3}[-.]?\d{4}\b at the start of the atom (resume_scorer.py:864)
     PhoneLocal |->
    {},
     \* \blinkedin\b|\bgithub\b|\btwitter\b (resume_scorer.py:183)
     Social |->
        {"linkedin", "linkedin.com/in/jane", "linkedin.cominjane"},
     \* \b\d+ at the end of the atom (resume_scorer.py:218)
     DigitTail |->
        {"10", BigNumber, "2015", "2020", "25", "3", "3.8", "555-123-4567", "8"},
     \* (?:years?|yrs?)\b at the start of the atom (resume_scorer.py:218)
     YearWord |->
        {"years"},
     \* \b(\d+)\+?(?:years?|yrs?)\b inside the atom (resume_scorer.py:218)
     YearsSelf |->
    {},
     \* \d+ inside the atom (resume_scorer.py:280)
     DigitBearing |->
        {"10", "10(10d)", BigNumber, "2015", "2020", "25", "25%", "3", "3.8",
         "555-123-4567", "8", "80c"},
     \* \b(?:bachelor|b\.?[as]\.?|undergraduate|bsc|bba|ba|bs)\b (resume_scorer.py:346)
     Bachelor |->
        {"bachelor"},
     \* \b(?:master|m\.?[as]\.?|mba|graduate|msc|ma|ms)\b (resume_scorer.py:346)
     Master |->
        {"(ma)"},
     \* \b(?:phd|doctorate|doctoral|ph\.?d\.?|dba)\b (resume_scorer.py:346)
     Doctorate |->
    {},
     \* \b(?:cpa|ca|acca|cma|jd|md|pharmd)\b (resume_scorer.py:346)
     Professional |->
        {"CPA", "cpa"},
     \* \b(?:associate|a\.?[as]\.?|diploma)\b (resume_scorer.py:346)
     Associate |->
    {},
     \* \b(?:gpa|grade) at the end of the atom (resume_scorer.py:435)
     GpaWord |->
        {"gpa"},
     \* \b[A-Z][a-z]+(?:inc|corp|llc|ltd|company|group|firm)\b inside the atom (resume_scorer.py:477)
     CompanySelf |->
    {},
     \* (?:inc|corp|llc|ltd|company|group|firm)\b at the start of the atom (resume_scorer.py:477)
     CompanyHead |->
        {"Corp", "corp"},
     \* \b(?:manager|senior|analyst|associate|director|specialist|lead|coordinator)\b (resume_scorer.py:481)
     JobTitle |->
        {"manager", "senior"},
     \* \b(?:19|20)\d{2}\b.*?(?:19|20)\d{2}\b inside the atom (resume_scorer.py:486)
     DateRange |->
    {},
     \* \b(?:19|20)\d{2}\b (resume_scorer.py:486)
     Year |->
        {"2015", "2020"},
     \* (?:19|20)\d{2}\b (resume_scorer.py:486)
     YearEnd |->
        {"2015", "2020"},
     \* \b\d+(?:years?|months?)\b inside the atom (resume_scorer.py:486)
     DurationSelf |->
    {},
     \* (?:years?|months?)\b at the start of the atom (resume_scorer.py:486)
     DurationWord |->
        {"month-end", "years"},
     \* \b\d+(?:\.\d+)?%?(?:\s*(?:million|thousand|k|m))?\b (resume_scorer.py:504)
     Number |->
        {"10", "10(10d)", BigNumber, "2015", "2020", "25", "25%", "3", "3.8",
         "555-123-4567", "8"},
     \* [a-z]\.[A-Z] (resume_scorer.py:600)
     MissingSpace |->
    {},
     \* atoms with a per cent sign (resume_scorer.py:670)
     Percent |->
        {"25%"},
     \* \d+%|\$\d+|\d+(million|thousand|projects|clients|team) inside the atom (resume_scorer.py:686)
     Quantified |->
        {"25%"},
     \* atoms that end with a digit (resume_scorer.py:686)
     DigitEnd |->
        {"10", BigNumber, "2015", "2020", "25", "3", "3.8", "555-123-4567", "8"},
     \* (million|thousand|projects|clients|team) at the start of the atom (resume_scorer.py:686)
     QuantityWord |->
        {"teams", "teamwork"},
     \* (?:years?|yrs?) at the start of the atom (resume_scorer.py:899)
     YearStart |->
        {"years"},
     \* years?\b at the start of the atom (resume_scorer.py:959)
     YearsHead |->
        {"years"},
     \* \d+%|\$\d+ (resume_scorer.py:1078)
     Metric |->
        {"25%"},
     \* improved.*\d+|increased.*\d+ inside the atom (resume_scorer.py:811)
     GrowthDigit |->
    {} ]

\* str.lower() of an atom
LowerAtom(a) ==
    CASE a = "Acme" -> "acme"
      [] a = "CPA" -> "cpa"
      [] a = "Corp" -> "corp"
      [] a = "Doe" -> "doe"
      [] a = "EXCEL" -> "excel"
      [] a = "Education" -> "education"
      [] a = "Excel" -> "excel"
      [] a = "Experience" -> "experience"
      [] a = "FOO" -> "foo"
      [] a = "Foo" -> "foo"
      [] a = "I" -> "i"
      [] a = "Jane" -> "jane"
      [] a = "Skills" -> "skills"
      [] a = "Summary" -> "summary"
      [] OTHER -> a

\* <<p, a>>: atom a starts with p and is longer
PrefixPairs ==
    {<<"asset", "assets">>, <<"audit", "auditor">>, <<"bi", "bill">>,
     <<"budget", "budgeting">>, <<"ca", "capital">>,
     <<"control", "controls">>, <<"develop", "developed">>,
     <<"ethic", "ethics">>, <<"experience", "experienced">>,
     <<"for", "forecasting">>, <<"improve", "improved">>,
     <<"in", "income">>, <<"in", "increased">>, <<"in", "independence">>,
     <<"in", "indirect">>, <<"in", "individuals">>, <<"in", "input">>,
     <<"in", "internal">>, <<"in", "investment">>, <<"lead", "leadership">>,
     <<"led", "ledger">>, <<"linkedin", "linkedin.com/in/jane">>,
     <<"linkedin", "linkedin.cominjane">>,
     <<"linkedin.com", "linkedin.com/in/jane">>,
     <<"linkedin.com", "linkedin.cominjane">>, <<"manage", "managed">>,
     <<"manage", "management">>, <<"manage", "manager">>,
     <<"return", "returns">>, <<"summa", "summary">>, <<"to", "tolerance">>,
     <<"year", "years">>}

\* <<p, a>>: atom a ends with p and is longer
SuffixPairs ==
    {<<"in", "linkedin">>, <<"valuation", "evaluation">>,
     <<"work", "teamwork">>}

\* <<p, a>>: atom a holds p and is longer
HoldsPairs ==
    {<<"&", "(m&a)">>, <<"/in/", ".com/in/jane">>,
     <<"/in/", "com/in/jane">>, <<"/in/", "linkedin.com/in/jane">>,
     <<"asset", "assets">>, <<"audit", "auditor">>, <<"bi", "bill">>,
     <<"bi", "cibil">>, <<"budget", "budgeting">>, <<"ca", "Education">>,
     <<"ca", "allocation">>, <<"ca", "capital">>, <<"ca", "communication">>,
     <<"ca", "education">>, <<"ca", "forecasting">>,
     <<"cia", "depreciation">>, <<"cia", "financial">>,
     <<"control", "controls">>, <<"develop", "developed">>,
     <<"ea", "increased">>, <<"ea", "leadership">>, <<"ea", "teams">>,
     <<"ea", "teamwork">>, <<"ea", "years">>, <<"ethic", "ethics">>,
     <<"experience", "experienced">>, <<"for", "forecasting">>,
     <<"improve", "improved">>, <<"in", ".com/in/jane">>,
     <<"in", ".cominjane">>, <<"in", "accounting">>, <<"in", "budgeting">>,
     <<"in", "business">>, <<"in", "closing">>, <<"in", "com/in/jane">>,
     <<"in", "cominjane">>, <<"in", "dashboarding">>, <<"in", "filing">>,
     <<"in", "finance">>, <<"in", "financial">>, <<"in", "financing">>,
     <<"in", "forecasting">>, <<"in", "income">>, <<"in", "increased">>,
     <<"in", "independence">>, <<"in", "indirect">>,
     <<"in", "individuals">>, <<"in", "input">>, <<"in", "internal">>,
     <<"in", "investment">>, <<"in", "linkedin">>,
     <<"in", "linkedin.com/in/jane">>, <<"in", "linkedin.cominjane">>,
     <<"in", "modeling">>, <<"in", "planning">>, <<"in", "posting">>,
     <<"in", "pricing">>, <<"in", "restructuring">>, <<"in", "sampling">>,
     <<"in", "testing">>, <<"in", "tracking">>, <<"in", "underwriting">>,
     <<"lead", "leadership">>, <<"led", "ledger">>,
     <<"linkedin", "linkedin.com/in/jane">>,
     <<"linkedin", "linkedin.cominjane">>,
     <<"linkedin.com", "linkedin.com/in/jane">>,
     <<"linkedin.com", "linkedin.cominjane">>, <<"manage", "managed">>,
     <<"manage", "management">>, <<"manage", "manager">>,
     <<"return", "returns">>, <<"summa", "summary">>, <<"to", "auditor">>,
     <<"to", "customs">>, <<"to", "tolerance">>,
     <<"valuation", "evaluation">>, <<"work", "teamwork">>,
     <<"year", "years">>}

\* <<w, a>>: \bw matches at the end of atom a, whatever the case
WordTailPairs ==
    {<<"auditor", "auditor">>, <<"could", "could">>,
     <<"developed", "developed">>, <<"effect", "effect">>,
     <<"environment", "environment">>, <<"gpa", "gpa">>, <<"i", "I">>,
     <<"i", "i">>, <<"improved", "improved">>, <<"increased", "increased">>,
     <<"led", "led">>, <<"managed", "managed">>, <<"manager", "manager">>,
     <<"of", "of">>, <<"on", "on">>, <<"recieve", "recieve">>,
     <<"senior", "senior">>, <<"seperate", "seperate">>,
     <<"should", "should">>, <<"strategy", "strategy">>, <<"that", "that">>,
     <<"would", "would">>}

\* <<w, a>>: w\b matches at the start of atom a, whatever the case
WordHeadPairs ==
    {<<"auditor", "auditor">>, <<"could", "could">>,
     <<"developed", "developed">>, <<"effect", "effect">>,
     <<"environment", "environment">>, <<"gpa", "gpa">>, <<"i", "I">>,
     <<"i", "i">>, <<"improved", "improved">>, <<"increased", "increased">>,
     <<"led", "led">>, <<"managed", "managed">>, <<"manager", "manager">>,
     <<"of", "of">>, <<"on", "on">>, <<"recieve", "recieve">>,
     <<"senior", "senior">>, <<"seperate", "seperate">>,
     <<"should", "should">>, <<"strategy", "strategy">>, <<"that", "that">>,
     <<"would", "would">>}

\* <<w, a>>: \bw\b matches in atom a, whatever the case
WordInPairs ==
    {<<"auditor", "auditor">>, <<"could", "could">>,
     <<"developed", "developed">>, <<"effect", "effect">>,
     <<"environment", "environment">>, <<"gpa", "gpa">>, <<"i", "I">>,
     <<"i", "i">>, <<"improved", "improved">>, <<"increased", "increased">>,
     <<"led", "led">>, <<"managed", "managed">>, <<"manager", "manager">>,
     <<"of", "of">>, <<"on", "on">>, <<"recieve", "recieve">>,
     <<"senior", "senior">>, <<"seperate", "seperate">>,
     <<"should", "should">>, <<"strategy", "strategy">>, <<"that", "that">>,
     <<"would", "would">>}

\* atoms that \w+ matches whole
WordCharAtoms ==
    {"10", BigNumber, "2015", "2020", "25", "3", "8", "80c", "Acme", "CPA",
     "Corp", "Doe", "EXCEL", "Education", "Excel", "Experience", "FOO",
     "Foo", "I", "Jane", "Skills", "Summary", "accounting", "accounts",
     "accruals", "acme", "acquisitions", "advisory", "allocation", "amt",
     "analysis", "and", "appraisal", "assessment", "asset", "assets", "at",
     "audit", "auditor", "bachelor", "balance", "basics", "bill",
     "budgeting", "business", "capital", "certified", "cibil", "close",
     "closing", "collateral", "com", "cominjane", "communication",
     "companies", "comparable", "compliance", "control", "controls", "corp",
     "corporate", "could", "cpa", "credit", "customs", "d", "dashboarding",
     "dcf", "debt", "depreciation", "detection", "developed", "doe", "duty",
     "education", "effect", "entries", "environment", "equity", "ethics",
     "evaluation", "excel", "excise", "experience", "experienced",
     "external", "filing", "finance", "financial", "financing", "fixed",
     "foo", "forecasting", "fraud", "funds", "gaap", "general", "gpa",
     "gst", "have", "i", "ifrs", "improved", "in", "income", "increased",
     "independence", "indirect", "individuals", "input", "internal",
     "investment", "ipo", "jane", "janemail", "journal", "kpi", "lbo",
     "leadership", "led", "ledger", "linkedin", "loan", "loss", "managed",
     "management", "manager", "markets", "mat", "mergers", "modeling",
     "models", "mutual", "nope", "npa", "of", "on", "operational",
     "organization", "payable", "pitchbook", "planning", "portfolio",
     "posting", "pricing", "process", "profit", "receivable", "recieve",
     "reconciliation", "report", "restructuring", "retirement", "return",
     "returns", "revenue", "risk", "sampling", "scenario", "science",
     "score", "section", "senior", "seperate", "sheet", "should", "skills",
     "sox", "state", "statements", "strategy", "structure", "summary",
     "tax", "tcs", "tds", "teams", "teamwork", "techniques", "testing",
     "that", "tolerance", "tracking", "trail", "transfer", "trial",
     "underwriting", "university", "valuation", "variance", "vat", "with",
     "would", "x", "years"}

\* re.split(r'[.!?]+', a) of an atom
DotParts(a) ==
    CASE a = "." -> <<"", "">>
      [] a = ".com/in/jane" -> <<"", "com/in/jane">>
      [] a = ".cominjane" -> <<"", "cominjane">>
      [] a = "3.8" -> <<"3", "8">>
      [] a = "?!" -> <<"", "">>
      [] a = "jane@mail.com" -> <<"jane@mail", "com">>
      [] a = "janemail.com" -> <<"janemail", "com">>
      [] a = "linkedin.com/in/jane" -> <<"linkedin", "com/in/jane">>
      [] a = "linkedin.cominjane" -> <<"linkedin", "cominjane">>
      [] OTHER -> <<a>>

\* re.sub(r'[^\w\s\.,;:()\-]', '', a) of an atom
CleanAtom(a) ==
    CASE a = "&" -> ""
      [] a = "(m&a)" -> "(ma)"
      [] a = ".com/in/jane" -> ".cominjane"
      [] a = "25%" -> "25"
      [] a = "?!" -> ""
      [] a = "com/in/jane" -> "cominjane"
      [] a = "jane@mail" -> "janemail"
      [] a = "jane@mail.com" -> "janemail.com"
      [] a = "linkedin.com/in/jane" -> "linkedin.cominjane"
      [] OTHER -> a

\* what a heading table gives an atom without the heading
NoMatch == "no match"

\* the heading (?:summary|about|profile|objective|professional summary|career objective|personal statement)
\* in a lower-case atom: what follows it in the atom
AboutHeadingRest(a) ==
    CASE a = "Summary" -> ""
      [] a = "summary" -> ""
      [] OTHER -> NoMatch

\* the heading (?:education|academic|qualification)
\* in a lower-case atom: what follows it in the atom
EducationHeadingRest(a) ==
    CASE a = "Education" -> ""
      [] a = "education" -> ""
      [] OTHER -> NoMatch

\* the heading (?:experience|employment|work|career|professional)
\* in a lower-case atom: what follows it in the atom
ExperienceHeadingRest(a) ==
    CASE a = "Experience" -> ""
      [] a = "experience" -> ""
      [] a = "experienced" -> "d"
      [] a = "teamwork" -> ""
      [] OTHER -> NoMatch

\* the heading (?:skills|competencies|expertise|technical)
\* in a lower-case atom: what follows it in the atom
SkillsHeadingRest(a) ==
    CASE a = "Skills" -> ""
      [] a = "skills" -> ""
      [] OTHER -> NoMatch

\* the atom without the e-mail addresses and phone numbers in it
ContactScrub(a) ==
    CASE a = "555-123-4567" -> ""
      [] a = "jane@mail.com" -> ""
      [] OTHER -> a

\* the atom without the social network name in it
SocialScrub(a) ==
    CASE a = "linkedin" -> ""
      [] a = "linkedin.com/in/jane" -> ".com/in/jane"
      [] a = "linkedin.cominjane" -> ".cominjane"
      [] OTHER -> a

\* re.findall(r'\b(19|20)(\d{2})\b', a) of an atom, as numbers
YearsIn(a) ==
    CASE a = "2015" -> <<2015>>
      [] a = "2020" -> <<2020>>
      [] OTHER -> <<>>

\* float of (\d+\.?\d*) at the start of the atom, in tenths rounded down;
\* -1 without digits there; the 5000 digits read as inf are no atom after gpa
GpaTenths(a) ==
    CASE a = "10" -> 100
      [] a = "10(10d)" -> 100
      [] a = "2015" -> 20150
      [] a = "2020" -> 20200
      [] a = "25" -> 250
      [] a = "25%" -> 250
      [] a = "3" -> 30
      [] a = "3.8" -> 38
      [] a = "555-123-4567" -> 5550
      [] a = "8" -> 80
      [] a = "80c" -> 800
      [] OTHER -> -1

\* \b[A-Z][a-z]+ at the end of the atom, whatever the case
LetterTailAtoms ==
    {".com/in/jane", ".cominjane", "Acme", "CPA", "Corp", "Doe", "EXCEL",
     "Education", "Excel", "Experience", "FOO", "Foo", "Jane", "Skills",
     "Summary", "accounting", "accounts", "accruals", "acme",
     "acquisitions", "advisory", "allocation", "amt", "analysis", "and",
     "appraisal", "assessment", "asset", "assets", "at", "audit", "auditor",
     "bachelor", "balance", "basics", "bill", "budgeting", "business",
     "capital", "certified", "cibil", "close", "closing", "collateral",
     "com", "com/in/jane", "cominjane", "communication", "companies",
     "comparable", "compliance", "control", "controls", "corp", "corporate",
     "could", "cpa", "credit", "customs", "dashboarding", "dcf", "debt",
     "depreciation", "detection", "developed", "doe", "duty", "e-way",
     "education", "effect", "entries", "environment", "equity", "ethics",
     "evaluation", "excel", "excise", "experience", "experienced",
     "external", "filing", "finance", "financial", "financing", "fixed",
     "foo", "forecasting", "fraud", "funds", "gaap", "general", "gpa",
     "gst", "have", "high-net-worth", "ifrs", "improved", "in", "income",
     "increased", "independence", "indirect", "individuals", "input",
     "internal", "investment", "ipo", "jane", "jane@mail", "jane@mail.com",
     "janemail", "janemail.com", "journal", "kpi", "lbo", "leadership",
     "led", "ledger", "linkedin", "linkedin.com/in/jane",
     "linkedin.cominjane", "loan", "loss", "managed", "management",
     "manager", "markets", "mat", "mergers", "modeling", "models",
     "month-end", "mutual", "nope", "npa", "of", "on", "operational",
     "organization", "payable", "pitchbook", "planning", "portfolio",
     "posting", "pricing", "process", "profit", "receivable", "recieve",
     "reconciliation", "report", "restructuring", "retirement", "return",
     "returns", "revenue", "risk", "sampling", "scenario", "science",
     "score", "section", "senior", "seperate", "sheet", "should", "skills",
     "sox", "state", "statements", "strategy", "structure", "summary",
     "tax", "tcs", "tds", "teams", "teamwork", "techniques", "testing",
     "that", "tolerance", "tracking", "trail", "transfer", "trial",
     "underwriting", "university", "valuation", "variance", "vat", "with",
     "would", "years"}

\* re.findall(r'(\d+)(?:years?|yrs?)', a) of a lower-case atom
InnerYearDigits(a) == <<>>

\* the digits that end the atom
TrailingDigits(a) ==
    CASE a = "10" -> "10"
      [] a = BigNumber -> BigNumber
      [] a = "2015" -> "2015"
      [] a = "2020" -> "2020"
      [] a = "25" -> "25"
      [] a = "3" -> "3"
      [] a = "3.8" -> "8"
      [] a = "555-123-4567" -> "4567"
      [] a = "8" -> "8"
      [] OTHER -> ""

\* int(digits) of the digit strings int accepts
DigitsValue(digits) ==
    CASE digits = "10" -> 10
      [] digits = "123" -> 123
      [] digits = "2015" -> 2015
      [] digits = "2020" -> 2020
      [] digits = "25" -> 25
      [] digits = "3" -> 3
      [] digits = "4567" -> 4567
      [] digits = "555" -> 555
      [] digits = "8" -> 8
      [] digits = "80" -> 80
      [] OTHER -> 0

\* the digits of \b(\d+)\+?years?\b inside the atom
YearsInAtom(a) == ""

--------------------------------------------------------------------------
(* str.lower() and the substring test  p in t  on atom sequences *)

lower(t) == [i \in 1..Len(t) |-> LowerAtom(t[i])]

StartsWith(a, p) == p = a \/ <<p, a>> \in PrefixPairs
EndsWith(a, p) == p = a \/ <<p, a>> \in SuffixPairs
AtomHas(a, p) == p = a \/ <<p, a>> \in HoldsPairs

\* Python's  p in t  with p at atoms i .. i + Len(p) - 1 of t
HasAt(t, p, i) ==
    LET k == Len(p)
    IN  /\ i + k - 1 <= Len(t)
        /\ IF k = 1 THEN AtomHas(t[i], p[1])
           ELSE /\ EndsWith(t[i], p[1])
                /\ StartsWith(t[i + k - 1], p[k])
                /\ \A j \in 2..(k - 1) : t[i + j - 1] = p[j]

\* Python's  p in t
Contains(t, p) == p = <<>> \/ \E i \in 1..Len(t) : HasAt(t, p, i)

--------------------------------------------------------------------------
(* DomainKeywords *)

\* the keys of self.domains in insertion order
DomainOrder ==
    <<"general", "accounting", "banking", "direct_tax", "fpa", "gst",
      "internal_audit", "investment_banking", "r2r", "statutory_audit",
      "wealth_management", "auditing", "taxation", "finance">>

KwInternalAudit ==
    << <<"risk", "assessment">>, <<"process", "control">>, <<"sox", "compliance">>,
       <<"internal", "controls">>, <<"audit", "trail">>, <<"fraud", "detection">>,
       <<"operational", "audit">>, <<"control", "testing">> >>

KwDirectTax ==
    << <<"income", "tax", "returns">>, <<"tds">>, <<"tcs">>,
       <<"corporate", "tax", "planning">>, <<"tax", "audit">>, <<"section", "80c">>,
       <<"section", "10(10d)">>, <<"mat">>, <<"amt">>,
       <<"transfer", "pricing">> >>

KwFpa ==
    << <<"forecasting">>, <<"budgeting">>, <<"variance", "analysis">>,
       <<"financial", "modeling">>, <<"kpi", "tracking">>, <<"dashboarding">>,
       <<"scenario", "analysis">> >>

\* DomainKeywords.__init__
InitialDomains ==
    [k \in Range(DomainOrder) |->
      CASE k = "general" ->
            [name |-> "General",
             keywords |->
               << <<"finance", "basics">>, <<"business", "strategy">>,
                  <<"corporate", "structure">>, <<"communication", "skills">>,
                  <<"excel">>, <<"ethics", "in", "finance">> >>]
        [] k = "accounting" ->
            [name |-> "Accounting",
             keywords |->
               << <<"journal", "entries">>, <<"ledger", "posting">>,
                  <<"trial", "balance">>, <<"balance", "sheet">>,
                  <<"profit", "&", "loss">>, <<"depreciation">>, <<"accruals">>,
                  <<"accounts", "payable">>, <<"accounts", "receivable">> >>]
        [] k = "banking" ->
            [name |-> "Banking - Credit Manager / Debt Management",
             keywords |->
               << <<"credit", "appraisal">>, <<"loan", "underwriting">>,
                  <<"risk", "assessment">>, <<"npa", "management">>,
                  <<"debt", "restructuring">>, <<"collateral", "evaluation">>,
                  <<"cibil", "score">> >>]
        [] k = "direct_tax" ->
            [name |-> "Direct Tax / Income Tax / Corporate Tax",
             keywords |-> KwDirectTax]
        [] k = "fpa" ->
            [name |-> "FP&A (Financial Planning & Analysis)",
             keywords |-> KwFpa]
        [] k = "gst" ->
            [name |-> "GST / Indirect Taxes",
             keywords |->
               << <<"gst", "compliance">>, <<"input", "tax", "credit">>,
                  <<"e-way", "bill">>, <<"gst", "return", "filing">>, <<"vat">>,
                  <<"excise">>, <<"customs", "duty">>,
                  <<"indirect", "tax", "audit">> >>]
        [] k = "internal_audit" ->
            [name |-> "Internal Audit", keywords |-> KwInternalAudit]
        [] k = "investment_banking" ->
            [name |-> "Investment Banking",
             keywords |->
               << <<"ipo">>, <<"mergers", "&", "acquisitions", "(m&a)">>,
                  <<"valuation", "models">>, <<"pitchbook">>,
                  <<"equity", "financing">>, <<"debt", "financing">>, <<"dcf">>,
                  <<"lbo">>, <<"comparable", "companies", "analysis">>,
                  <<"capital", "markets">> >>]
        [] k = "r2r" ->
            [name |-> "R2R (Record to Report)",
             keywords |->
               << <<"financial", "closing">>, <<"journal", "entries">>,
                  <<"general", "ledger">>, <<"financial", "statements">>,
                  <<"reconciliation">>, <<"month-end", "close">>,
                  <<"trial", "balance">>, <<"fixed", "assets", "accounting">> >>]
        [] k = "statutory_audit" ->
            [name |-> "Statutory Audit",
             keywords |->
               << <<"ifrs">>, <<"gaap">>, <<"audit", "report">>,
                  <<"external", "audit">>, <<"compliance">>,
                  <<"internal", "control">>, <<"sampling", "techniques">>,
                  <<"auditor", "independence">> >>]
        [] k = "wealth_management" ->
            [name |-> "Wealth Management",
             keywords |->
               << <<"asset", "allocation">>, <<"portfolio", "management">>,
                  <<"financial", "planning">>, <<"risk", "tolerance">>,
                  <<"retirement", "planning">>, <<"investment", "advisory">>,
                  <<"mutual", "funds">>,
                  <<"high-net-worth", "individuals", "(hnis)">> >>]
        [] k = "auditing" ->
            [name |-> "Internal Audit", keywords |-> KwInternalAudit]
        [] k = "taxation" ->
            [name |-> "Direct Tax / Income Tax / Corporate Tax",
             keywords |-> KwDirectTax]
        [] k = "finance" ->
            [name |-> "FP&A (Financial Planning & Analysis)",
             keywords |-> KwFpa]]

\* a lookup whose fallback is the first registered domain
get_domain_keywords_first(doms, domain) ==
    IF domain \notin DOMAIN doms THEN Return(doms["accounting"])
    ELSE Return(doms[domain])

\* get_domain_keywords(domain): the fallback expression evaluates
\* self.domains['accounting'] before dict.get is called
get_domain_keywords(doms, domain) ==
    IF domain \notin DOMAIN doms
    THEN IF "accounting" \notin DOMAIN doms THEN Raise("KeyError")
         ELSE IF "general" \in DOMAIN doms THEN Return(doms["general"])
         ELSE Return(doms["accounting"])
    ELSE Return(doms[domain])

\* search_keywords(query, domain): domain "" stands for None; the result is
\* list(set(...)), whose order is unspecified, kept as a set
search_keywords(doms, query, domain) ==
    LET q == lower(query)
        domains_to_search ==
            IF domain # "" THEN <<domain>> ELSE DomainOrder
        missing == {i \in 1..Len(domains_to_search) :
                       domains_to_search[i] \notin DOMAIN doms}
        found(d) == {kw \in Range(doms[d].keywords) : Contains(lower(kw), q)}
    IN  IF missing # {} THEN Raise("KeyError")
        ELSE Return(UNION {found(domains_to_search[i]) :
                              i \in 1..Len(domains_to_search)})

\* get_keyword_count(domain)
get_keyword_count(doms, domain) ==
    IF domain \notin DOMAIN doms THEN Return(0)
    ELSE Return(Len(doms[domain].keywords))

\* the keyword list of domain after add_custom_keywords(domain, keywords):
\* existing_keywords is computed once, before the list is filtered
extended_keywords(old, keywords) ==
    LET existing_keywords == {lower(kw) : kw \in Range(old)}
        new_keywords ==
            SelectSeq(keywords, LAMBDA kw : lower(kw) \notin existing_keywords)
    IN  old \o new_keywords

\* an addition that resolves its key as the lookups do
add_custom_keywords_defaulting(doms, domain, keywords) ==
    LET d == IF domain \in DOMAIN doms THEN domain ELSE "general"
    IN  [status |-> "ok",
         domains |->
            [doms EXCEPT ![d].keywords =
                extended_keywords(doms[d].keywords, keywords)]]

\* add_custom_keywords(domain, keywords): the status and the catalog after it
add_custom_keywords(doms, domain, keywords) ==
    IF domain \notin DOMAIN doms
    THEN [status |-> "ValueError", domains |-> doms]
    ELSE [status |-> "ok",
          domains |->
            [doms EXCEPT ![domain].keywords =
                extended_keywords(doms[domain].keywords, keywords)]]

\* round(present / total * 100, 1), in tenths of a percent
coverage10(present, total) == RoundDiv(present * 1000, total)

\* check_keywords_in_order(text, domain)
check_keywords_in_order(doms, text, domain) ==
    LET domain_data == get_domain_keywords(doms, domain)
    IN  IF domain_data.status # "ok" THEN domain_data
        ELSE
          LET keywords == domain_data.value.keywords
              text_lower == lower(text)
              present_keywords ==
                  SelectSeq(keywords, LAMBDA kw : Contains(text_lower, lower(kw)))
              missing_keywords ==
                  SelectSeq(keywords, LAMBDA kw : ~Contains(text_lower, lower(kw)))
          IN  Return([present_keywords |-> present_keywords,
                      missing_keywords |-> missing_keywords,
                      total_keywords |-> Len(keywords),
                      present_count |-> Len(present_keywords),
                      missing_count |-> Len(missing_keywords),
                      coverage_percentage10 |->
                          IF keywords # <<>>
                          THEN coverage10(Len(present_keywords), Len(keywords))
                          ELSE 0])

--------------------------------------------------------------------------
(* Strings as atom sequences *)

\* str.split(): the atoms that are not blank
Squeeze(t) == SelectSeq(t, LAMBDA a : a # "")

RECURSIVE lstrip(_)
lstrip(t) == IF t # <<>> /\ Head(t) = "" THEN lstrip(Tail(t)) ELSE t

RECURSIVE rstrip(_)
rstrip(t) ==
    IF t # <<>> /\ t[Len(t)] = "" THEN rstrip(SubSeq(t, 1, Len(t) - 1)) ELSE t

\* str.strip()
strip(t) == rstrip(lstrip(t))

\* the characters of the atoms of t, the halves of t counted apart
RECURSIVE CharsOf(_)
CharsOf(t) ==
    IF t = <<>> THEN 0
    ELSE IF Len(t) = 1 THEN Len(t[1])
    ELSE CharsOf(SubSeq(t, 1, Len(t) \div 2))
         + CharsOf(SubSeq(t, Len(t) \div 2 + 1, Len(t)))

\* len(s): the characters of the atoms and one blank between neighbours
StrLen(t) == IF t = <<>> THEN 0 ELSE CharsOf(t) + Len(t) - 1

\* the patterns of ps that occur in t, in the order of ps
FoundIn(t, ps) == SelectSeq(ps, LAMBDA p : Contains(t, p))
AnyIn(t, ps) == \E i \in 1..Len(ps) : Contains(t, ps[i])

\* an atom of S followed, after blanks only, by an atom of T
Adjacent(t, S, T) ==
    LET w == Squeeze(t)
    IN  \E i \in 1..(Len(w) - 1) : w[i] \in S /\ w[i + 1] \in T

\* some atom of t is in S
HasAtomIn(t, S) == \E i \in 1..Len(t) : t[i] \in S

Opt(c, s) == IF c THEN s ELSE <<>>

\* the sequences of ss one after the other, the halves of ss joined
RECURSIVE Flatten(_)
Flatten(ss) ==
    IF ss = <<>> THEN <<>>
    ELSE IF Len(ss) = 1 THEN ss[1]
    ELSE Flatten(SubSeq(ss, 1, Len(ss) \div 2))
         \o Flatten(SubSeq(ss, Len(ss) \div 2 + 1, Len(ss)))

FirstN(s, n) == SubSeq(s, 1, IF Len(s) < n THEN Len(s) ELSE n)

\* the sentences of two texts one after the other: the last sentence of the
\* first runs on into the first sentence of the second
JoinSentences(left, right) ==
    SubSeq(left, 1, Len(left) - 1)
    \o <<left[Len(left)] \o right[1]>>
    \o Tail(right)

\* re.split(r'[.!?]+', text) and text.split('.'): '!' and '?' do not survive
\* _clean_text, and no atom of the model holds two adjacent periods
\* each part of an atom but its first begins a sentence
RECURSIVE Sentences(_)
Sentences(t) ==
    IF t = <<>> THEN << <<>> >>
    ELSE IF Len(t) = 1
         THEN [j \in 1..Len(DotParts(t[1])) |-> <<DotParts(t[1])[j]>>]
    ELSE JoinSentences(Sentences(SubSeq(t, 1, Len(t) \div 2)),
                       Sentences(SubSeq(t, Len(t) \div 2 + 1, Len(t))))

\* the number of '.' characters of t
DotCount(t) == Len(Sentences(t)) - 1

--------------------------------------------------------------------------
(* ResumeScorer: tables of __init__ *)

soft_skills ==
    << <<"leadership">>, <<"communication">>, <<"teamwork">>,
       <<"problem", "solving">>, <<"analytical", "thinking">>,
       <<"attention", "to", "detail">>, <<"time", "management">>,
       <<"adaptability">>, <<"creativity">>, <<"critical", "thinking">>,
       <<"collaboration">>, <<"project", "management">>,
       <<"presentation", "skills">>, <<"negotiation">>, <<"mentoring">>,
       <<"strategic", "thinking">>, <<"decision", "making">>,
       <<"conflict", "resolution">>, <<"emotional", "intelligence">>,
       <<"interpersonal", "skills">>, <<"multitasking">>, <<"organization">>,
       <<"planning">>, <<"innovation">>, <<"customer", "service">>,
       <<"flexibility">>, <<"reliability">>, <<"initiative">>, <<"patience">>,
       <<"stress", "management">>, <<"delegation">>, <<"coaching">>,
       <<"public", "speaking">>, <<"networking">>, <<"cultural", "awareness">>,
       <<"empathy">>, <<"persuasion">>, <<"active", "listening">>,
       <<"work", "ethic">> >>

action_words ==
    << <<"achieved">>, <<"accomplished">>, <<"implemented">>, <<"developed">>,
       <<"managed">>, <<"led">>, <<"created">>, <<"improved">>, <<"increased">>,
       <<"reduced">>, <<"optimized">>, <<"streamlined">>, <<"enhanced">>,
       <<"delivered">>, <<"coordinated">>, <<"supervised">>, <<"executed">>,
       <<"initiated">>, <<"designed">>, <<"established">>, <<"generated">>,
       <<"facilitated">>, <<"analyzed">>, <<"resolved">>, <<"collaborated">>,
       <<"mentored">> >>

\* the grammar_issues patterns, each the words its regex joins with \s+;
\* "\w+" stands for one atom made of word characters
grammar_issues ==
    << [words |-> <<"there", "are", "\\w+", "that", "is">>,
        description |-> "Subject-verb disagreement"],
       [words |-> <<"should", "of">>, description |-> "Should use should have"],
       [words |-> <<"could", "of">>, description |-> "Should use could have"],
       [words |-> <<"would", "of">>, description |-> "Should use would have"],
       [words |-> <<"it's", "own">>, description |-> "Should use its own"],
       [words |-> <<"your", "welcome">>, description |-> "Should use you're welcome"],
       [words |-> <<"effect", "on|upon">>, description |-> "Consider using affect instead"],
       [words |-> <<"then", "i", "will">>, description |-> "Consider using than for comparisons"] >>

--------------------------------------------------------------------------
(* ResumeScorer._clean_text *)

\* re.sub(r'\s+', ' ', text) leaves the atoms one blank apart; the second
\* re.sub deletes the characters outside [\w\s.,;:()-] from each atom; then
\* strip()
_clean_text(text) == strip([i \in 1..Len(text) |-> CleanAtom(text[i])])

--------------------------------------------------------------------------
(* ResumeScorer._extract_sections *)

\* what follows the heading words and colons of a section in atom a
HeadingRest(section, a) ==
    CASE section = "about" -> AboutHeadingRest(a)
      [] section = "education" -> EducationHeadingRest(a)
      [] section = "experience" -> ExperienceHeadingRest(a)
      [] section = "skills" -> SkillsHeadingRest(a)

\* re.search of a heading pattern  (?:h1|h2|...)[\s\n]*[:]*\s*(.*?)(?=\n...|$)
\* in text without a newline: the leftmost atom holding a heading word, and
\* group(1) from the end of that heading to the end of the text
HeadingMatch(t, section) ==
    LET AfterColons(tail) ==
            IF tail # <<>> /\ Head(tail) \in Atoms.Colon THEN Tail(tail) ELSE tail
        Span(i, r) ==
            IF r # "" THEN <<r>> \o SubSeq(t, i + 1, Len(t))
            ELSE AfterColons(lstrip(SubSeq(t, i + 1, Len(t))))
        Leftmost(hits) ==
            IF hits = {} THEN [found |-> FALSE, span |-> <<>>]
            ELSE LET i == CHOOSE k \in hits : \A h \in hits : k <= h
                 IN  [found |-> TRUE, span |-> Span(i, HeadingRest(section, t[i]))]
    IN  Leftmost({i \in 1..Len(t) : HeadingRest(section, t[i]) # NoMatch})

\* years?\s+(?:of\s+)?experience|professional|specialist|expert|certified|skilled
HasDescriptor(seg) ==
    LET w == Squeeze(seg)
    IN  \/ \E i \in 1..Len(w) :
              \E p \in {"professional", "specialist", "expert", "certified",
                        "skilled"} : AtomHas(w[i], p)
        \/ \E i \in 1..(Len(w) - 1) :
              /\ EndsWith(w[i], "year") \/ EndsWith(w[i], "years")
              /\ \/ StartsWith(w[i + 1], "experience")
                 \/ /\ w[i + 1] = "of"
                    /\ i + 2 <= Len(w)
                    /\ StartsWith(w[i + 2], "experience")

\* the second about pattern, anchored at the start of text that holds no
\* newline: a descriptor before the first period and at most two periods
AboutFallback(t) ==
    [found |-> DotCount(t) <= 2 /\ HasDescriptor(Sentences(t)[1]),
     span |-> t]

_extract_sections(text) ==
    LET section(m) == IF m.found THEN strip(m.span) ELSE <<>>
        \* the first about pattern whose group(1) is longer than 20
        about(first, second) ==
            IF StrLen(first) > 20 THEN first
            ELSE IF StrLen(second) > 20 THEN second
            ELSE <<>>
        Sections(text_lower) ==
            [about |-> about(section(HeadingMatch(text_lower, "about")),
                             section(AboutFallback(text_lower))),
             education |-> section(HeadingMatch(text_lower, "education")),
             experience |-> section(HeadingMatch(text_lower, "experience")),
             skills |-> section(HeadingMatch(text_lower, "skills"))]
    IN  Sections(lower(text))

--------------------------------------------------------------------------
(* ResumeScorer._analyze_contact_information *)

_analyze_contact_information(text) ==
    LET text_lower == lower(text)
    IN  [has_name |-> Adjacent(text, Atoms.CapTail, Atoms.CapHead),
         has_email |-> \E i \in 1..Len(text) : text[i] \in Atoms.Email,
         has_phone |->
            \/ \E i \in 1..Len(text) : text[i] \in Atoms.Phone
            \/ Adjacent(text, Atoms.PhoneArea, Atoms.PhoneLocal),
         has_linkedin |->
            AnyIn(text_lower, << <<"linkedin.com">>, <<"linkedin">>, <<"/in/">>,
                                 <<"linkedin.in">> >>)]

--------------------------------------------------------------------------
(* ResumeScorer._score_about_section *)

\* re.sub(pattern, '', s, re.IGNORECASE) passes the flag as count (2): only
\* the first two social-handle words are removed
RemoveSocial(t, n) ==
    [i \in 1..Len(t) |->
        IF /\ t[i] \in Atoms.Social
           /\ Cardinality({j \in 1..i : t[j] \in Atoms.Social}) <= n
        THEN SocialScrub(t[i])
        ELSE t[i]]

\* cleaned_about of a present about_text
CleanedAbout(about_text) ==
    LET collapsed == Squeeze(about_text)
        scrubbed == [i \in 1..Len(collapsed) |-> ContactScrub(collapsed[i])]
    IN  strip(RemoveSocial(scrubbed, 2))

\* matches of \b(i am|i have|i do|my|me)\b
FirstPersonMatches(t) ==
    Cardinality({i \in 1..Len(t) : t[i] \in {"my", "me"}})
    + Cardinality({i \in 1..(Len(t) - 1) :
                      t[i] = "i" /\ t[i + 1] \in {"am", "have", "do"}})

\* \b(\d+)\s*\+?\s*(?:years?|yrs?)\b: '+' does not survive _clean_text
QuantifiesYears(t) ==
    \/ Adjacent(t, Atoms.DigitTail, Atoms.YearWord)
    \/ \E i \in 1..Len(t) : t[i] \in Atoms.YearsSelf

about_domain_terms ==
    << [domain |-> "audit",
        terms |-> << <<"audit">>, <<"auditing">>, <<"auditor">>, <<"sox">>,
                     <<"compliance">>, <<"internal", "controls">> >>],
       [domain |-> "tax",
        terms |-> << <<"tax">>, <<"taxation">>, <<"tax", "planning">>,
                     <<"tax", "compliance">>, <<"ctp">> >>],
       [domain |-> "finance",
        terms |-> << <<"finance">>, <<"financial">>, <<"cfa">>,
                     <<"investment">>, <<"portfolio">> >>],
       [domain |-> "accounting",
        terms |-> << <<"accounting">>, <<"accountant">>, <<"cpa">>, <<"gaap">>,
                     <<"financial", "reporting">> >>] >>

\* the operators below take the values the source keeps in local variables
\* as parameters, named as in the source, first use last
_score_about_section(about_text, full_text) ==
    LET present == about_text # <<>>
        Domains(focus) == [i \in 1..Len(focus) |-> focus[i].domain]
        Feedback(cleaned_about, char_count, word_count, experience_match,
                 found_expertise, found_actions, first_person, found_domains,
                 numbers, contact_analysis) ==
            LET has_text == cleaned_about # <<>>
                exists == present /\ char_count > 10
                optimal == present /\ 50 <= char_count /\ char_count <= 300
                key_elements ==
                    (IF experience_match THEN 1 ELSE 0)
                    + (IF found_expertise # <<>> THEN 1 ELSE 0)
                    + (IF found_actions # <<>> THEN 1 ELSE 0)
                third_person == first_person = 0 /\ has_text
                score ==
                    (IF exists THEN 2 ELSE 0)
                    + (IF optimal THEN 2 ELSE 0)
                    + key_elements
                    + (IF third_person THEN 1 ELSE 0)
                    + (IF found_domains # <<>> THEN 1 ELSE 0)
                strengths ==
                    Opt(exists, <<"About section is present">>)
                    \o Opt(optimal, <<"Optimal length">>)
                    \o Opt(experience_match, <<"Quantifies experience">>)
                    \o Opt(found_expertise # <<>>, <<"Establishes expertise level">>)
                    \o Opt(found_actions # <<>>, <<"Uses impactful action words">>)
                    \o Opt(third_person, <<"Maintains professional third-person tone">>)
                    \o Opt(found_domains # <<>>, <<"Clear specialization">>)
                    \o Opt(has_text /\ numbers, <<"Includes quantifiable metrics">>)
                    \o Opt(contact_analysis.has_name, <<"Professional name clearly displayed">>)
                    \o Opt(contact_analysis.has_email, <<"Email address provided for contact">>)
                    \o Opt(contact_analysis.has_phone, <<"Phone number available for contact">>)
                    \o Opt(contact_analysis.has_linkedin, <<"LinkedIn profile linked">>)
                improvements ==
                    Opt(~exists, <<"Add a compelling 2-3 sentence summary">>)
                    \o Opt(~optimal /\ present /\ char_count < 50,
                           <<"Summary too brief", "Example summary">>)
                    \o Opt(~optimal /\ present /\ char_count > 300,
                           <<"Summary too lengthy", "Remove less relevant details">>)
                    \o Opt(~experience_match,
                           <<"Add specific years of experience", "Quantifying experience establishes credibility">>)
                    \o Opt(found_expertise = <<>>,
                           <<"Include expertise indicators", "Example expertise">>)
                    \o Opt(found_actions = <<>>,
                           <<"Include strong action verbs", "Replace weak phrases">>)
                    \o Opt(first_person > 0,
                           <<"Uses first-person perspective", "Convert to third-person", "Example transformation">>)
                    \o Opt(found_domains = <<>>,
                           <<"Specify your professional specialization", "Example additions">>)
                    \o Opt(has_text /\ ~numbers, <<"Consider adding quantifiable achievements">>)
                    \o Opt(~contact_analysis.has_name, <<"Ensure your full name is displayed">>)
                    \o Opt(~contact_analysis.has_email, <<"Include a professional email address">>)
                    \o Opt(~contact_analysis.has_phone, <<"Add your phone number">>)
                    \o Opt(~contact_analysis.has_linkedin, <<"Consider adding your LinkedIn profile URL">>)
                errors == Opt(~exists, <<"Missing or too short About/Summary section">>)
            IN  [score |-> IF score < 10 THEN score ELSE 10,
                 feedback |->
                    [strengths |-> strengths,
                     improvements |-> improvements,
                     errors |-> errors,
                     detailed_analysis |->
                        [word_count |-> word_count,
                         char_count |-> char_count,
                         key_elements_found |-> key_elements,
                         first_person_usage |-> IF present THEN first_person ELSE 0,
                         domain_focus |-> found_domains,
                         action_words_used |-> found_actions,
                         expertise_indicators |-> found_expertise]]]
        Analysis(cleaned_about, about_lower) ==
            Feedback(cleaned_about,
                     StrLen(cleaned_about),
                     Len(Squeeze(cleaned_about)),
                     cleaned_about # <<>> /\ QuantifiesYears(about_lower),
                     FoundIn(about_lower,
                             << <<"expert">>, <<"experienced">>, <<"skilled">>,
                                <<"proficient">>, <<"specialist">>,
                                <<"certified">> >>),
                     FoundIn(about_lower,
                             << <<"achieve">>, <<"deliver">>, <<"improve">>,
                                <<"lead">>, <<"manage">>, <<"develop">>,
                                <<"implement">>, <<"optimize">> >>),
                     FirstPersonMatches(about_lower),
                     Domains(SelectSeq(about_domain_terms,
                                       LAMBDA e : AnyIn(about_lower, e.terms))),
                     HasAtomIn(cleaned_about, Atoms.DigitBearing),
                     _analyze_contact_information(full_text))
        Cleaned(cleaned_about) == Analysis(cleaned_about, lower(cleaned_about))
    IN  Cleaned(IF present THEN CleanedAbout(about_text) ELSE <<>>)

--------------------------------------------------------------------------
(* ResumeScorer._score_education_section *)

degree_patterns ==
    << [type |-> "Bachelor", atoms |-> Atoms.Bachelor],
       [type |-> "Master", atoms |-> Atoms.Master],
       [type |-> "Doctorate", atoms |-> Atoms.Doctorate],
       [type |-> "Professional", atoms |-> Atoms.Professional],
       [type |-> "Associate", atoms |-> Atoms.Associate] >>

cert_categories ==
    << [category |-> "Accounting",
        certs |-> << <<"cpa">>, <<"ca">>, <<"acca">>, <<"cma">> >>],
       [category |-> "Audit", certs |-> << <<"cia">>, <<"cisa">>, <<"crma">> >>],
       [category |-> "Finance", certs |-> << <<"cfa">>, <<"frm">>, <<"cfp">> >>],
       [category |-> "Tax", certs |-> << <<"ea">>, <<"ctp">>, <<"cmt">> >>],
       [category |-> "General", certs |-> << <<"certified">>, <<"licensed">> >>] >>

\* \b(?:gpa|grade)\s*:?\s*(\d+\.?\d*): the value in tenths, -1 without a match
GpaValue10(t) ==
    LET w == Squeeze(t)
        value(i) ==
            IF w[i] \notin Atoms.GpaWord \/ i = Len(w) THEN -1
            ELSE IF w[i + 1] \in Atoms.Colon
                 THEN IF i + 2 <= Len(w) THEN GpaTenths(w[i + 2]) ELSE -1
                 ELSE GpaTenths(w[i + 1])
        at == {i \in 1..Len(w) : value(i) >= 0}
    IN  IF at = {} THEN -1 ELSE value(CHOOSE i \in at : \A j \in at : i <= j)

_score_education_section(education_text, full_text) ==
    LET present == education_text # <<>>
        Types(found) == [i \in 1..Len(found) |-> found[i].type]
        Categories(certs) == [i \in 1..Len(certs) |-> certs[i].category]
        Feedback(char_count, found_degrees, institution_found,
                 named_institution, years, found_certs, found_fields, gpa10,
                 found_honors) ==
            LET exists == present /\ char_count > 10
                recent_years == SelectSeq(years, LAMBDA y : y >= 2020)
                score ==
                    (IF exists THEN 2 ELSE 0)
                    + (IF found_degrees # <<>> THEN 3 ELSE 0)
                    + (IF institution_found THEN 2 ELSE 0)
                    + (IF years # <<>> THEN 1 ELSE 0)
                    + (IF found_certs # <<>> THEN 2 ELSE 0)
                strengths ==
                    Opt(exists, <<"Education section present">>)
                    \o Opt(found_degrees # <<>>, <<"Degree type(s)">>)
                    \o Opt(Len(found_degrees) > 1, <<"Multiple degrees">>)
                    \o Opt(institution_found /\ named_institution,
                           <<"Specific educational institution names provided">>)
                    \o Opt(institution_found /\ ~named_institution,
                           <<"Educational institution type mentioned">>)
                    \o Opt(years # <<>>, <<"Graduation year(s) specified">>)
                    \o Opt(recent_years # <<>>, <<"Recent education">>)
                    \o Opt(found_certs # <<>>, <<"Professional certifications">>)
                    \o Opt(present /\ found_fields # <<>>, <<"Relevant field of study">>)
                    \o Opt(present /\ gpa10 >= 35, <<"Excellent academic performance">>)
                    \o Opt(present /\ found_honors # <<>>, <<"Academic honors">>)
                improvements ==
                    Opt(~exists, <<"Include: Degree, Institution, Graduation Year", "Format example">>)
                    \o Opt(found_degrees = <<>>, <<"Specify exact degree type", "Degree examples">>)
                    \o Opt(institution_found /\ ~named_institution,
                           <<"Include specific institution names for better credibility">>)
                    \o Opt(~institution_found,
                           <<"Include specific educational institution names", "Institution examples">>)
                    \o Opt(years = <<>>, <<"Add graduation year", "Year format">>)
                    \o Opt(found_certs = <<>>, <<"Add relevant professional certifications", "Include status">>)
                    \o Opt(present /\ found_fields = <<>>, <<"Specify field of study">>)
                    \o Opt(present /\ gpa10 < 0, <<"Include GPA if 3.5+">>)
                errors == Opt(~exists, <<"Missing or incomplete education section">>)
            IN  [score |-> IF score < 10 THEN score ELSE 10,
                 feedback |->
                    [strengths |-> strengths,
                     improvements |-> improvements,
                     errors |-> errors,
                     detailed_analysis |->
                        [degrees_found |-> found_degrees,
                         certification_categories |-> found_certs,
                         graduation_years |-> years,
                         entry_count |->
                            IF Squeeze(education_text) # <<>> THEN 1 ELSE 0,
                         section_length |-> char_count,
                         institution_mentioned |-> institution_found]]]
        Analysis(edu_lower) ==
            Feedback(StrLen(strip(education_text)),
                     Types(SelectSeq(degree_patterns,
                                     LAMBDA e : HasAtomIn(edu_lower, e.atoms))),
                     AnyIn(edu_lower,
                           << <<"university">>, <<"college">>, <<"institute">>,
                              <<"school">>, <<"academy">> >>),
                     Adjacent(education_text, Atoms.CapTail,
                              {"University", "College", "Institute"}),
                     Flatten([i \in 1..Len(education_text) |->
                                 YearsIn(education_text[i])]),
                     Categories(SelectSeq(cert_categories,
                                          LAMBDA e : AnyIn(edu_lower, e.certs))),
                     FoundIn(edu_lower,
                             << <<"accounting">>, <<"finance">>, <<"business">>,
                                <<"economics">>, <<"audit">>, <<"taxation">> >>),
                     GpaValue10(edu_lower),
                     FoundIn(edu_lower,
                             << <<"magna", "cum", "laude">>,
                                <<"summa", "cum", "laude">>, <<"cum", "laude">>,
                                <<"honors">>, <<"dean's", "list">> >>))
    IN  Analysis(lower(education_text))

--------------------------------------------------------------------------
(* ResumeScorer._score_experience_section *)

\* \b[A-Z][a-z]+(?:\s+[A-Z][a-z]+)*\s*(?:inc|corp|llc|ltd|company|group|firm)\b
\* under re.IGNORECASE: a run of letters, blanks, a company suffix
NamesCompany(t) ==
    \/ \E i \in 1..Len(t) : t[i] \in Atoms.CompanySelf
    \/ Adjacent(t, LetterTailAtoms, Atoms.CompanyHead)

\* \b(?:19|20)\d{2}\b.*?(?:19|20)\d{2}\b  or  \b\d+\s*(?:years?|months?)\b
GivesDates(t) ==
    \/ \E i \in 1..Len(t) : t[i] \in Atoms.DateRange
    \/ \E i \in 1..Len(t) : \E j \in (i + 1)..Len(t) :
          t[i] \in Atoms.Year /\ t[j] \in Atoms.YearEnd
    \/ \E i \in 1..Len(t) : t[i] \in Atoms.DurationSelf
    \/ Adjacent(t, Atoms.DigitTail, Atoms.DurationWord)

_score_experience_section(experience_text, full_text) ==
    LET Feedback(exists, company, title, dates, action_count, numbers) ==
            LET score ==
                    (IF exists THEN 2 ELSE 0)
                    + (IF company THEN 1 ELSE 0)
                    + (IF title THEN 1 ELSE 0)
                    + (IF dates THEN 1 ELSE 0)
                    + (IF action_count >= 5 THEN 2
                       ELSE IF action_count >= 3 THEN 1 ELSE 0)
                    + (IF numbers THEN 2 ELSE 0)
            IN  [score |-> IF score < 10 THEN score ELSE 10,
                 feedback |->
                    [strengths |->
                        Opt(exists, <<"Work experience section is present">>)
                        \o Opt(company, <<"Company names mentioned">>)
                        \o Opt(title, <<"Job titles clearly stated">>)
                        \o Opt(dates, <<"Employment dates/duration provided">>)
                        \o Opt(action_count >= 5, <<"Strong use of action words">>)
                        \o Opt(action_count \in 3..4, <<"Good use of action words">>)
                        \o Opt(numbers, <<"Quantifiable achievements mentioned">>),
                     improvements |->
                        Opt(~dates, <<"Add employment dates and duration">>)
                        \o Opt(action_count < 3, <<"Add more strong action words">>)
                        \o Opt(~numbers, <<"Add specific numbers and metrics to show impact">>),
                     errors |->
                        Opt(~exists, <<"Missing or incomplete work experience section">>)]]
    IN  Feedback(experience_text # <<>> /\ StrLen(strip(experience_text)) > 20,
                 NamesCompany(experience_text),
                 HasAtomIn(experience_text, Atoms.JobTitle),
                 GivesDates(experience_text),
                 Len(FoundIn(lower(experience_text), action_words)),
                 HasAtomIn(experience_text, Atoms.Number))

--------------------------------------------------------------------------
(* ResumeScorer._score_skills_section *)

tech_keywords ==
    << <<"excel">>, <<"sap">>, <<"quickbooks">>, <<"sql">>, <<"python">>,
       <<"tableau">>, <<"power", "bi">>, <<"sage">>, <<"peachtree">> >>

_score_skills_section(skills_text, full_text, domain_data) ==
    LET Feedback(exists, nd, ns, found_tech) ==
            LET score ==
                    (IF exists THEN 2 ELSE 0)
                    + (IF nd >= 10 THEN 4 ELSE IF nd >= 5 THEN 3
                       ELSE IF nd >= 3 THEN 2 ELSE 0)
                    + (IF ns >= 5 THEN 2 ELSE IF ns >= 3 THEN 1 ELSE 0)
                    + (IF found_tech # <<>> THEN 2 ELSE 0)
            IN  [score |-> IF score < 10 THEN score ELSE 10,
                 feedback |->
                    [strengths |->
                        Opt(exists, <<"Skills section is present">>)
                        \o Opt(nd >= 10, <<"Excellent domain expertise">>)
                        \o Opt(nd \in 5..9, <<"Good domain knowledge">>)
                        \o Opt(ns >= 5, <<"Good soft skills coverage">>)
                        \o Opt(found_tech # <<>>, <<"Technology skills mentioned">>),
                     improvements |->
                        Opt(nd \in 3..4, <<"Add more domain-specific skills">>)
                        \o Opt(nd < 3, <<"Add more industry-specific technical skills">>)
                        \o Opt(ns \in 3..4, <<"Add a few more soft skills">>)
                        \o Opt(ns < 3, <<"Add relevant soft skills">>)
                        \o Opt(found_tech = <<>>, <<"Add relevant software/technology skills">>),
                     errors |-> Opt(~exists, <<"Missing or incomplete skills section">>)]]
        \* nd and ns: the numbers of found_domain_skills and found_soft_skills
        Analysis(text_lower) ==
            Feedback(skills_text # <<>> /\ StrLen(strip(skills_text)) > 10,
                     Len(SelectSeq(domain_data.keywords,
                                   LAMBDA skill : Contains(text_lower, lower(skill)))),
                     Len(FoundIn(text_lower, soft_skills)),
                     FoundIn(text_lower, tech_keywords))
    IN  Analysis(lower(full_text))
--------------------------------------------------------------------------
(* ResumeScorer._check_grammar_spelling *)

\* one word of a pattern against the atom at its place: the first word may
\* end an atom, the last may start one, an inner word is the whole atom
WordAt(a, word, first, last) ==
    IF word = "\\w+" THEN a \in WordCharAtoms
    ELSE IF word = "on|upon"
         THEN <<"on", a>> \in WordHeadPairs \/ <<"upon", a>> \in WordHeadPairs
    ELSE IF first THEN <<word, a>> \in WordTailPairs
    ELSE IF last THEN <<word, a>> \in WordHeadPairs
    ELSE LowerAtom(a) = word

PhraseAt(w, words, i) ==
    /\ i + Len(words) - 1 <= Len(w)
    /\ \A k \in 1..Len(words) :
          WordAt(w[i + k - 1], words[k], k = 1, k = Len(words))

\* re.finditer: the matches from left to right, none overlapping another;
\* starts holds the places at or after i where the phrase stands
RECURSIVE CountMatches(_, _)
CountMatches(starts, step) ==
    IF starts = {} THEN 0
    ELSE LET first == CHOOSE p \in starts : \A q \in starts : p <= q
         IN  1 + CountMatches({p \in starts : p >= first + step}, step)

PhraseMatches(w, words, i) ==
    CountMatches({p \in i..Len(w) : PhraseAt(w, words, p)}, Len(words) - 1)

RECURSIVE Repeated(_, _)
Repeated(x, n) == IF n = 0 THEN <<>> ELSE <<x>> \o Repeated(x, n - 1)

RECURSIVE GrammarMatches(_, _)
GrammarMatches(w, k) ==
    IF k > Len(grammar_issues) THEN <<>>
    ELSE Repeated([type |-> "grammar",
                   description |-> grammar_issues[k].description],
                  PhraseMatches(w, grammar_issues[k].words, 1))
         \o GrammarMatches(w, k + 1)

common_mistakes ==
    << [word |-> "recieve", correction |-> "receive"],
       [word |-> "accommodate", correction |-> "accommodate"],
       [word |-> "occurence", correction |-> "occurrence"],
       [word |-> "seperate", correction |-> "separate"],
       [word |-> "definately", correction |-> "definitely"],
       [word |-> "environment", correction |-> "environment"],
       [word |-> "maintenance", correction |-> "maintenance"] >>

\* \bword\b somewhere in t, whatever the case
HasWord(t, word) == \E i \in 1..Len(t) : <<word, t[i]>> \in WordInPairs
HasAnyWord(t, words) == \E word \in words : HasWord(t, word)

\* \s{3,} in stripped text: two blank atoms in a row
HasTripleBlank(t) ==
    \E i \in 1..(Len(t) - 1) : t[i] = "" /\ t[i + 1] = ""

HasDigit(t) == \E i \in 1..Len(t) : t[i] \in Atoms.DigitBearing

\* the improvements one sentence earns
SentenceImprovements(s) ==
    LET sentence == strip(s)
        w == Squeeze(sentence)
    IN  IF StrLen(sentence) < 10 THEN <<>>
        ELSE Opt(\E i \in 1..(Len(w) - 2) :
                     /\ \E v \in {"was", "were", "is", "are"} :
                           <<v, w[i]>> \in WordTailPairs
                     /\ LowerAtom(w[i + 1]) = "responsible"
                     /\ <<"for", w[i + 2]>> \in WordHeadPairs,
                 << [type |-> "sentence_improvement", issue |-> sentence,
                     suggestion |-> "Replace was responsible for"] >>)
             \o Opt(HasAnyWord(sentence, {"many", "various", "several", "some"})
                        /\ ~HasDigit(sentence),
                    << [type |-> "sentence_improvement", issue |-> sentence,
                        suggestion |-> "Add specific numbers"] >>)
             \o Opt(HasAnyWord(sentence, {"improved", "increased", "reduced",
                                          "saved", "managed"})
                        /\ ~HasDigit(sentence)
                        /\ ~(\E i \in 1..Len(sentence) :
                                sentence[i] \in Atoms.Percent),
                    << [type |-> "sentence_improvement", issue |-> sentence,
                        suggestion |-> "Quantify your achievements"] >>)

RECURSIVE AllImprovements(_, _)
AllImprovements(sentences, k) ==
    IF k > Len(sentences) \/ k > 10 THEN <<>>
    ELSE SentenceImprovements(sentences[k]) \o AllImprovements(sentences, k + 1)

\* a score that is not held at zero
overall_score_unclamped(issues) == 10 - Len(issues)

\* max(0, 10 - len(issues))
overall_score(issues) ==
    IF 10 - Len(issues) > 0 THEN 10 - Len(issues) ELSE 0

_check_grammar_spelling(text) ==
    LET Report(grammar, formatting, spelling, issues, improvements, tone) ==
            [issues |-> FirstN(issues, 15),
             improvements |-> FirstN(improvements, 10),
             correct_elements |->
                Opt(grammar = <<>>, <<"No common grammar errors detected">>)
                \o Opt(formatting = <<>>, <<"Good formatting and spacing">>)
                \o Opt(spelling = <<>>, <<"No obvious spelling mistakes found">>)
                \o Opt(HasAnyWord(text, {"achieved", "managed", "led", "developed",
                                         "implemented", "improved"}),
                       <<"Uses professional action words">>)
                \o Opt(tone, <<"Professional tone maintained">>)
                \o Opt(\/ \E i \in 1..Len(text) : text[i] \in Atoms.Quantified
                       \/ Adjacent(text, Atoms.DigitEnd, Atoms.QuantityWord),
                       <<"Includes quantified achievements">>),
             total_issues |-> Len(issues),
             total_improvements |-> Len(improvements),
             grammar_errors |-> Len(grammar),
             formatting_issues |-> Len(formatting),
             spelling_issues |-> Len(spelling),
             overall_score |-> overall_score(issues)]
        Issues(grammar, formatting, spelling, tone) ==
            Report(grammar, formatting, spelling,
                   grammar \o formatting \o spelling,
                   AllImprovements(Sentences(text), 1), tone)
        Spelling(mistakes) ==
            [k \in 1..Len(mistakes) |->
                [type |-> "spelling", description |-> mistakes[k].correction]]
        Checks(w) ==
            Issues(GrammarMatches(w, 1),
                   Opt(HasTripleBlank(text),
                       << [type |-> "formatting",
                           description |-> "Remove extra spaces between words"] >>)
                   \o Opt(\E i \in 1..Len(text) : text[i] \in Atoms.MissingSpace,
                          << [type |-> "formatting",
                              description |-> "Add space after periods"] >>),
                   Spelling(SelectSeq(common_mistakes,
                                      LAMBDA m : HasWord(text, m.word))),
                   ~(\/ HasAnyWord(text, {"um", "uh", "like"})
                     \/ PhraseMatches(w, <<"you", "know">>, 1) > 0))
    IN  Checks(Squeeze(text))

--------------------------------------------------------------------------
(* ResumeScorer._analyze_word_count *)

\* int(s) of a digit string: CPython refuses more than
\* sys.int_info.default_max_str_digits digits with ValueError
int_max_str_digits == 4300

IntRefuses(digits) == Len(digits) > int_max_str_digits

\* re.findall(r'(\d+)\s*(?:years?|yrs?)', text.lower()): the digit strings,
\* those inside one atom and those that end an atom before a year word
YearPatterns(t) ==
    LET w == Squeeze(lower(t))
    IN  Flatten([i \in 1..Len(w) |->
            InnerYearDigits(w[i])
            \o Opt(/\ TrailingDigits(w[i]) # ""
                   /\ i < Len(w)
                   /\ w[i + 1] \in Atoms.YearStart,
                   <<TrailingDigits(w[i])>>)])

Max(S) == CHOOSE x \in S : \A y \in S : y <= x

\* a profile that counts as a fresher below ten years
IsFresher_below_ten(max_experience) == max_experience < 10

\* is_fresher = max_experience < 2
IsFresher(max_experience) == max_experience < 2

_analyze_word_count(text) ==
    LET Report(word_count, is_fresher, lo, hi) ==
            Return([word_count |-> word_count,
                    is_fresher |-> is_fresher,
                    is_optimal |-> lo <= word_count /\ word_count <= hi,
                    status |-> IF word_count < lo THEN "too_short"
                               ELSE IF word_count > hi THEN "too_long"
                               ELSE "optimal",
                    recommendation |->
                       IF word_count < lo THEN <<"expand", lo - word_count>>
                       ELSE IF word_count > hi THEN <<"condense", word_count - hi>>
                       ELSE <<"optimal", 0>>,
                    target_range |-> <<lo, hi>>])
        Ranges(word_count, is_fresher) ==
            Report(word_count, is_fresher,
                   IF is_fresher THEN 450 ELSE 600,
                   IF is_fresher THEN 600 ELSE 800)
        Experience(word_count, years_mentioned) ==
            Ranges(word_count,
                   IsFresher(IF years_mentioned # {} THEN Max(years_mentioned)
                             ELSE 0))
        \* int(year) of every pattern comes before the filter 0 <= . <= 50
        Years(word_count, year_patterns) ==
            IF \E i \in 1..Len(year_patterns) : IntRefuses(year_patterns[i])
            THEN Raise("ValueError")
            ELSE Experience(word_count,
                            {DigitsValue(year_patterns[i]) :
                                i \in 1..Len(year_patterns)} \cap 0..50)
    IN  Years(Len(Squeeze(text)), YearPatterns(text))

--------------------------------------------------------------------------
(* ResumeScorer._analyze_hard_skills, _analyze_soft_skills,
   _analyze_certifications *)

Density(score10) ==
    IF score10 >= 700 THEN "High" ELSE IF score10 >= 400 THEN "Medium" ELSE "Low"

\* the first key, in the order of the catalog, whose domain bears the name
KeyOfName(doms, domain_name) ==
    LET named == {i \in 1..Len(DomainOrder) :
                     /\ DomainOrder[i] \in DOMAIN doms
                     /\ doms[DomainOrder[i]].name = domain_name}
    IN  IF named = {} THEN ""
        ELSE DomainOrder[CHOOSE i \in named : \A j \in named : i <= j]

_analyze_hard_skills(doms, text, domain_data) ==
    LET Report(keyword_analysis) ==
            [found_skills |-> keyword_analysis.present_keywords,
             missing_skills |-> keyword_analysis.missing_keywords,
             relevance_score10 |-> keyword_analysis.coverage_percentage10,
             density |-> Density(keyword_analysis.coverage_percentage10),
             total_found |-> Len(keyword_analysis.present_keywords),
             total_available |-> Len(keyword_analysis.present_keywords)
                                 + Len(keyword_analysis.missing_keywords)]
        \* domain_key is a key of the catalog here: the name comes from it
    IN  Report(check_keywords_in_order(doms, text,
                                       KeyOfName(doms, domain_data.name)).value)

\* every missing soft skill reported
TopMissing_all(missing_soft_skills) == missing_soft_skills

\* missing_soft_skills[:10]
TopMissing(missing_soft_skills) == FirstN(missing_soft_skills, 10)

_analyze_soft_skills(text) ==
    LET Report(found_soft_skills, missing_soft_skills) ==
            [found_skills |-> found_soft_skills,
             missing_skills |-> TopMissing(missing_soft_skills),
             coverage_score10 |->
                RoundDiv(Len(found_soft_skills) * 1000, Len(soft_skills)),
             assessment |->
                IF Len(found_soft_skills) * 100 >= 60 * Len(soft_skills)
                THEN "Excellent"
                ELSE IF Len(found_soft_skills) * 100 >= 40 * Len(soft_skills)
                THEN "Good" ELSE "Needs Improvement"]
        Analysis(text_lower) ==
            Report(FoundIn(text_lower, soft_skills),
                   SelectSeq(soft_skills,
                             LAMBDA skill : ~Contains(text_lower, skill)))
    IN  Analysis(lower(text))

cert_mappings(domain) ==
    CASE domain = "auditing" -> <<"cpa", "cia", "cisa", "ca", "acca", "cma">>
      [] domain = "taxation" -> <<"cpa", "ea", "ctp", "cmt", "ca">>
      [] domain = "finance" -> <<"cfa", "frm", "cpa", "ca", "acca", "cma">>
      [] OTHER -> <<>>

\* cert.upper() on the acronyms of cert_mappings
upper(cert) ==
    [cpa |-> "CPA", cia |-> "CIA", cisa |-> "CISA", ca |-> "CA",
     acca |-> "ACCA", cma |-> "CMA", ea |-> "EA", ctp |-> "CTP",
     cmt |-> "CMT", cfa |-> "CFA", frm |-> "FRM"][cert]

\* every relevant acronym reported as missing
missing_key_certs_all(relevant_certs, found_certs) ==
    [i \in 1..Len(relevant_certs) |-> upper(relevant_certs[i])]

\* [cert.upper() for cert in relevant_certs if cert.upper() not in found_certs]
missing_key_certs(relevant_certs, found_certs) ==
    SelectSeq([i \in 1..Len(relevant_certs) |-> upper(relevant_certs[i])],
              LAMBDA cert : cert \notin Range(found_certs))

\* cert.upper() in text.upper(): the model compares in lower case, which
\* agrees for the ASCII letters of the certificates
_analyze_certifications(text, domain) ==
    LET Report(relevant_certs, found_certs) ==
            [found_certifications |-> found_certs,
             relevant_for_domain |-> relevant_certs,
             missing_key_certs |-> missing_key_certs(relevant_certs, found_certs),
             value_assessment |->
                IF found_certs # <<>> THEN "High Value" ELSE "Consider Adding"]
        Upper(found) ==
            Report(cert_mappings(domain),
                   [i \in 1..Len(found) |-> upper(found[i])])
        Found(relevant_certs, text_lower) ==
            Upper(SelectSeq(relevant_certs,
                            LAMBDA cert : Contains(text_lower, <<cert>>)))
    IN  Found(cert_mappings(domain), lower(text))
--------------------------------------------------------------------------
(* ResumeScorer: the helpers of _generate_personalized_recommendations *)

\* a recommendation: its fixed wording and what the wording interpolates
Rec(text) == [text |-> text, terms |-> <<>>, count |-> 0, types |-> {}]

\* \b(\d+)\+?\s*years?\b: the digits of the leftmost match, "" without one
YearsMatch(t) ==
    LET digits(w, i) ==
            IF YearsInAtom(w[i]) # "" THEN YearsInAtom(w[i])
            ELSE IF /\ w[i] \in Atoms.DigitTail
                    /\ i < Len(w)
                    /\ w[i + 1] \in Atoms.YearsHead
                 THEN TrailingDigits(w[i])
                 ELSE ""
        Leftmost(w, at) ==
            IF at = {} THEN "" ELSE digits(w, CHOOSE i \in at : \A j \in at : i <= j)
        Matches(w) == Leftmost(w, {i \in 1..Len(w) : digits(w, i) # ""})
    IN  Matches(Squeeze(t))

_detect_experience_level(text_lower) ==
    LET Years(years_match) ==
            IF years_match # ""
            THEN IF IntRefuses(years_match) THEN Raise("ValueError")
                 ELSE IF DigitsValue(years_match) >= 8 THEN Return("senior")
                 ELSE IF DigitsValue(years_match) >= 3 THEN Return("mid")
                 ELSE Return("entry")
            ELSE Return("mid")
        Level(w) ==
            IF \/ HasAnyWord(text_lower, {"senior", "director", "manager", "lead", "vp"})
               \/ PhraseMatches(w, <<"vice", "president">>, 1) > 0
               \/ PhraseMatches(w, <<"head", "of">>, 1) > 0
            THEN Return("senior")
            ELSE IF HasAnyWord(text_lower, {"analyst", "associate", "specialist",
                                            "coordinator"})
            THEN Return("mid")
            ELSE IF HasAnyWord(text_lower, {"intern", "trainee", "entry", "graduate",
                                            "junior", "assistant"})
            THEN Return("entry")
            ELSE Years(YearsMatch(text_lower))
    IN  Level(Squeeze(text_lower))

role_words ==
    {"senior", "lead", "principal", "director", "manager", "analyst",
     "associate", "specialist", "coordinator", "auditor", "accountant"}

\* list(set(matches)): the roles as a set
_extract_current_roles(text_lower) ==
    {role \in role_words : HasWord(text_lower, role)}

domain_requirements(domain) ==
    CASE domain = "auditing" -> <<"audit", "compliance", "risk", "controls">>
      [] domain = "taxation" -> <<"tax", "return", "planning", "compliance">>
      [] domain = "finance" -> <<"financial", "analysis", "budget", "forecasting">>
      [] OTHER -> <<>>

_identify_missing_critical_elements(text_lower, domain) ==
    LET Missing(missing_terms) ==
            Opt(~HasDigit(text_lower),
                <<Rec("CRITICAL: Add quantifiable achievements")>>)
            \o Opt(~HasAnyWord(text_lower, {"achieved", "managed", "led",
                                            "developed", "implemented"}),
                   <<Rec("CRITICAL: Use strong action verbs")>>)
            \o Opt(missing_terms # <<>>,
                   << [Rec("CRITICAL: Include domain keywords")
                           EXCEPT !.terms = <<domain>> \o missing_terms] >>)
    IN  Missing(SelectSeq(domain_requirements(domain),
                          LAMBDA term : ~Contains(text_lower, <<term>>)))

_get_domain_specific_recommendations(text_lower, domain, hard_skills) ==
    IF domain = "auditing"
    THEN Opt(~Contains(text_lower, <<"sox">>),
             <<Rec("Add SOX compliance experience")>>)
         \o Opt(~Contains(text_lower, <<"gaap">>) /\ ~Contains(text_lower, <<"ifrs">>),
                <<Rec("Include GAAP/IFRS knowledge")>>)
    ELSE IF domain = "taxation"
    THEN Opt(~Contains(text_lower, <<"tax", "preparation">>),
             <<Rec("Specify tax preparation experience")>>)
         \o Opt(~HasAnyWord(text_lower, {"1040", "1120", "1065"}),
                <<Rec("Add specific tax form experience")>>)
    ELSE IF domain = "finance"
    THEN Opt(~Contains(text_lower, <<"financial", "modeling">>),
             <<Rec("Include financial modeling experience")>>)
         \o Opt(~Contains(text_lower, <<"excel">>),
                <<Rec("Emphasize Excel proficiency")>>)
    ELSE <<>>

\* the message quotes the first 50 characters of the sentence; the model
\* keeps the sentence
_analyze_content_for_improvements(text_lower, current_roles) ==
    LET Improvements(unquantified_achievements) ==
            Opt(Contains(text_lower, <<"responsible", "for">>),
                <<Rec("Replace responsible for with strong action verbs")>>)
            \o Opt(\/ Contains(text_lower, <<"helped">>)
                   \/ Contains(text_lower, <<"assisted">>),
                   <<Rec("Replace helped/assisted with specific contributions")>>)
            \o Opt(unquantified_achievements # <<>>,
                   << [Rec("Quantify achievements like")
                           EXCEPT !.terms = strip(unquantified_achievements[1])] >>)
    IN  Improvements(
            SelectSeq(FirstN(Sentences(text_lower), 10),
                      LAMBDA s : /\ AnyIn(s, << <<"improved">>, <<"increased">>,
                                                <<"reduced">>, <<"saved">> >>)
                                 /\ ~HasDigit(s)))

_get_personalized_about_improvement(text_lower, experience_level, current_roles) ==
    IF experience_level = "entry"
    THEN Rec("Strengthen summary with academic achievements")
    ELSE IF experience_level = "senior"
    THEN Rec("Enhance summary to emphasize strategic leadership")
    ELSE Rec("Improve summary with quantified achievements")

\* \d+% and \$\d+
HasMetric(t) == \E i \in 1..Len(t) : t[i] \in Atoms.Metric

_get_personalized_experience_improvement(text_lower, experience_level) ==
    IF ~HasMetric(text_lower)
    THEN Rec("Add specific metrics to quantify your impact")
    ELSE IF experience_level = "senior" /\ ~HasAnyWord(text_lower, {"team", "staff"})
    THEN Rec("Highlight team leadership and staff development")
    ELSE Rec("Strengthen experience descriptions")

_get_personalized_language_improvement(issues, text_lower) ==
    IF issues # <<>>
    THEN [Rec("Address language issues")
             EXCEPT !.count = Len(issues),
                    !.types = {issues[i].type : i \in 1..Len(FirstN(issues, 3))}]
    ELSE Rec("Review for consistency in tense usage")

--------------------------------------------------------------------------
(* ResumeScorer._generate_personalized_recommendations *)

\* improved.*\d+|increased.*\d+
GrowthThenDigit(t) ==
    \/ \E i \in 1..Len(t) : t[i] \in Atoms.GrowthDigit
    \/ \E i \in 1..Len(t) : \E j \in (i + 1)..Len(t) :
          /\ AtomHas(t[i], "improved") \/ AtomHas(t[i], "increased")
          /\ t[j] \in Atoms.DigitBearing

\* a loop that keeps every recommendation
Dedupe_keeping(recs, final_recs) == final_recs \o recs

\* a loop that puts each recommendation it keeps in front of the others
RECURSIVE Dedupe_prepending(_, _)
Dedupe_prepending(recs, final_recs) ==
    IF recs = <<>> THEN final_recs
    ELSE Dedupe_prepending(Tail(recs),
                IF Head(recs) \notin Range(final_recs) /\ Len(final_recs) < 8
                THEN <<Head(recs)>> \o final_recs
                ELSE final_recs)

\* the loop that drops repeats and stops at eight
RECURSIVE Dedupe(_, _)
Dedupe(recs, final_recs) ==
    IF recs = <<>> THEN final_recs
    ELSE Dedupe(Tail(recs),
                IF Head(recs) \notin Range(final_recs) /\ Len(final_recs) < 8
                THEN Append(final_recs, Head(recs))
                ELSE final_recs)

\* the list recommendations as it stands before the final loop
generated_recommendations(about_score, exp_score, hard_skills, issues, resume_text, domain) ==
    LET Recommendations(text_lower, experience_level, current_roles) ==
            FirstN(_identify_missing_critical_elements(text_lower, domain), 2)
            \o (IF experience_level = "entry"
                THEN Opt(~HasAnyWord(text_lower, {"project", "coursework",
                                                  "internship", "volunteer"}),
                         <<Rec("Add academic projects, internships, or coursework")>>)
                     \o Opt(~HasAnyWord(text_lower, {"gpa", "honor", "award",
                                                     "scholarship"}),
                            <<Rec("Include academic achievements")>>)
                ELSE IF experience_level = "mid"
                THEN Opt(~HasAnyWord(text_lower, {"led", "managed", "supervised",
                                                  "coordinated"}),
                         <<Rec("Highlight leadership experience")>>)
                     \o Opt(~HasMetric(text_lower) /\ ~GrowthThenDigit(text_lower),
                            <<Rec("Quantify your impact")>>)
                ELSE Opt(~HasAnyWord(text_lower, {"strategy", "vision",
                                                  "transformation", "initiative",
                                                  "mentored"}),
                         <<Rec("Emphasize strategic leadership and mentoring")>>))
            \o FirstN(_get_domain_specific_recommendations(
                          text_lower, domain, hard_skills), 2)
            \o FirstN(_analyze_content_for_improvements(
                          text_lower, current_roles), 2)
            \o Opt(about_score < 7,
                   <<_get_personalized_about_improvement(
                        text_lower, experience_level, current_roles)>>)
            \o Opt(exp_score < 7,
                   <<_get_personalized_experience_improvement(
                        text_lower, experience_level)>>)
            \o Opt(issues # <<>>,
                   <<_get_personalized_language_improvement(issues, text_lower)>>)
        \* the level is detected first: what it raises leaves the method
        Level(text_lower, level) ==
            IF level.status # "ok" THEN level
            ELSE Return(Recommendations(text_lower, level.value,
                                        _extract_current_roles(text_lower)))
        Analysis(text_lower) ==
            Level(text_lower, _detect_experience_level(text_lower))
    IN  Analysis(lower(resume_text))

_generate_personalized_recommendations(about_score, edu_score, exp_score, skills_score, hard_skills, soft_skills_, issues, resume_text, domain) ==
    LET Final(generated) ==
            IF generated.status # "ok" THEN generated
            ELSE Return(Dedupe(generated.value, <<>>))
    IN  Final(generated_recommendations(about_score, exp_score, hard_skills,
                                        issues, resume_text, domain))

--------------------------------------------------------------------------
(* ResumeScorer._generate_heatmap_data and score_resume *)

\* the overall_health values are kept in tenths: (a + b) / 2 * 10 = 5 (a + b)
_generate_heatmap_data(about_score, edu_score, exp_score, skills_score, hard_skills, soft_skills_) ==
    [section_scores |-> [about_me |-> about_score, education |-> edu_score,
                         experience |-> exp_score, skills |-> skills_score],
     skills_density |-> [hard_skills |-> hard_skills.relevance_score10,
                         soft_skills |-> soft_skills_.coverage_score10],
     overall_health10 |->
        [content_quality |-> (about_score + exp_score) * 50,
         qualifications |-> (edu_score + skills_score) * 50,
         professional_impact |-> exp_score * 100]]

\* self.domain_keywords.domains after score_resume: the method and the
\* methods it calls assign nothing to it
\* a scorer that records a keyword of its own in the default domain
score_resume_domains_recording(doms, resume_text, domain) ==
    [doms EXCEPT !["general"].keywords =
        extended_keywords(@, << <<"resume">> >>)]

\* the catalog after score_resume: no statement of the pipeline assigns to
\* domain_keywords.domains or to a keyword list
score_resume_domains(doms, resume_text, domain) == doms

\* a total in which each section counts twice
SectionWeight10_double(score) == score * 20

\* the weight of a section in the total, in tenths
SectionWeight10(score) == score * 25

score_resume(doms, resume_text, domain) ==
    LET Result(about, education, experience, skills, grammar, word_count_analysis, hard_skills_analysis, soft_skills_analysis, cert_analysis, recommendations) ==
            IF word_count_analysis.status # "ok" THEN word_count_analysis
            ELSE IF recommendations.status # "ok" THEN recommendations
            ELSE Return(
                [total_score10 |->
                    SectionWeight10(about.score)
                    + SectionWeight10(education.score)
                    + SectionWeight10(experience.score)
                    + SectionWeight10(skills.score),
                 section_scores |->
                    [about_me |-> about.score, education |-> education.score,
                     experience |-> experience.score, skills |-> skills.score],
                 section_feedback |->
                    [about_me |-> about.feedback, education |-> education.feedback,
                     experience |-> experience.feedback, skills |-> skills.feedback],
                 grammar_issues |-> grammar,
                 word_count_analysis |-> word_count_analysis.value,
                 hard_skills_analysis |-> hard_skills_analysis,
                 soft_skills_analysis |-> soft_skills_analysis,
                 certification_analysis |-> cert_analysis,
                 recommendations |-> recommendations.value,
                 heatmap_data |->
                    _generate_heatmap_data(
                        about.score, education.score, experience.score,
                        skills.score, hard_skills_analysis, soft_skills_analysis)])
        Recommended(cleaned_text, about, education, experience, skills, grammar, word_count_analysis, hard_skills_analysis, soft_skills_analysis, cert_analysis) ==
            Result(about, education, experience, skills, grammar,
                   word_count_analysis, hard_skills_analysis,
                   soft_skills_analysis, cert_analysis,
                   _generate_personalized_recommendations(
                       about.score, education.score, experience.score,
                       skills.score, hard_skills_analysis, soft_skills_analysis,
                       grammar.issues, cleaned_text, domain))
        Analysed(cleaned_text, domain_data, sections) ==
            Recommended(cleaned_text,
                _score_about_section(sections.about, cleaned_text),
                _score_education_section(sections.education, cleaned_text),
                _score_experience_section(sections.experience, cleaned_text),
                _score_skills_section(sections.skills, cleaned_text, domain_data),
                _check_grammar_spelling(cleaned_text),
                _analyze_word_count(cleaned_text),
                _analyze_hard_skills(doms, cleaned_text, domain_data),
                _analyze_soft_skills(cleaned_text),
                _analyze_certifications(cleaned_text, domain))
        Cleaned(cleaned_text, lookup) ==
            IF lookup.status # "ok" THEN lookup
            ELSE Analysed(cleaned_text, lookup.value,
                          _extract_sections(cleaned_text))
    IN  Cleaned(_clean_text(resume_text), get_domain_keywords(doms, domain))
--------------------------------------------------------------------------
(* Inputs: resume texts are made of these fragments, each a run of raw     *)
(* atoms; a text is its fragments one after the other                      *)

FragAbout ==
    <<"Summary", ":", "experienced", "certified", "auditor", "with", "8",
     "years", "of", "experience", ".", "managed", "audit", "teams", ".">>

FragEducation ==
    <<"Education", ":", "bachelor", "of", "science", "state", "university",
     "2020", "gpa", "3.8", "CPA">>

FragExperience ==
    <<"Experience", ":", "senior", "manager", "at", "Acme", "Corp", "2015",
     "-", "2020", "managed", "led", "developed", "improved", "increased",
     "revenue", "25%", "in", "that", "environment">>

FragSkills ==
    <<"Skills", ":", "Excel", "leadership", "communication", "teamwork",
     "planning", "organization", "finance", "basics", "business",
     "strategy", "corporate", "structure", "income", "tax", "returns",
     "tds", "tcs", "corporate", "tax", "planning", "tax", "audit",
     "section", "80c", "section", "10(10d)", "mat", "amt", "transfer",
     "pricing">>

FragGrammar ==
    <<"should", "of", "should", "of", "should", "of", "should", "of",
     "should", "of", "could", "of", "would", "of", "effect", "on",
     "recieve", "seperate">>

FragContact ==
    <<"Jane", "Doe", "jane@mail.com", "555-123-4567",
     "linkedin.com/in/jane", "I", "have", "10", "years", "experience",
     "with", "profit", "&", "loss", "and", "foo">>

FragBig ==
    <<BigNumber, "years">>

FragPunct ==
    <<"?!">>

FragChar ==
    <<"x">>

Fragments ==
    {FragAbout, FragEducation, FragExperience, FragSkills, FragGrammar, FragContact, FragBig, FragPunct, FragChar}

\* the options of the domain selectbox, in their order
SelectableDomains ==
    <<"General", "Accounting", "Statutory Audit", "Internal Audit",
     "Record to Report (R2R)", "Indirect Tax / GST",
     "Direct Tax / Corporate Tax / International Tax", "Transfer Pricing",
     "FP&A (Financial Planning & Analysis)",
     "Financial Reporting / IND AS Advisory / Financial Accounting & Advisory Service (FAAS)",
     "Management Consulting / Strategy Consulting", "Investment Banking",
     "Wealth Management", "Treasury / Equity Research",
     "Banking - Credit Manager / Debt Management / RM",
     "Commercial Finance / AP/AR Specialist", "Data Analytics",
     "ERP Consulting / SAP FICO", "ESG", "Finance Controller",
     "Financial Due Diligence", "M&A (Mergers & Acquisitions)", "M&A Tax",
     "Valuations", "Forensic Audit", "Management Trainee">>

\* get_domain_mapping(): <<label, internal key>>, in the order of the dict
get_domain_mapping ==
    <<<<"General", "general">>, <<"Accounting", "accounting">>,
     <<"Statutory Audit", "statutory_audit">>,
     <<"Internal Audit", "internal_audit">>,
     <<"Record to Report (R2R)", "r2r">>, <<"Indirect Tax / GST", "gst">>,
     <<"Direct Tax / Corporate Tax / International Tax", "direct_tax">>,
     <<"Transfer Pricing", "direct_tax">>,
     <<"FP&A (Financial Planning & Analysis)", "fpa">>,
     <<"Financial Reporting / IND AS Advisory / Financial Accounting & Advisory Service (FAAS)", "accounting">>,
     <<"Management Consulting / Strategy Consulting", "general">>,
     <<"Investment Banking", "investment_banking">>,
     <<"Wealth Management", "wealth_management">>,
     <<"Treasury / Equity Research", "general">>,
     <<"Banking - Credit Manager / Debt Management / RM", "banking">>,
     <<"Commercial Finance / AP/AR Specialist", "general">>,
     <<"Data Analytics", "general">>,
     <<"ERP Consulting / SAP FICO", "general">>, <<"ESG", "general">>,
     <<"Finance Controller", "general">>,
     <<"Financial Due Diligence", "general">>,
     <<"M&A (Mergers & Acquisitions)", "general">>,
     <<"M&A Tax", "direct_tax">>, <<"Valuations", "general">>,
     <<"Forensic Audit", "statutory_audit">>,
     <<"Management Trainee", "general">>>>

\* declared MIME types of uploaded files
FileTypes ==
    {"application/pdf", "APPLICATION/PDF",
     "application/vnd.openxmlformats-officedocument.wordprocessingml.document",
     "application/msword",
     "application/vnd.openxmlformats-officedocument.spreadsheetml.sheet",
     "text/plain"}

\* file_type.lower()
LowerType(file_type) ==
    IF file_type = "APPLICATION/PDF" THEN "application/pdf"
    ELSE file_type

\* <<p, t>>: Python's  p in t  for what extract_text and
\* validate_file_type look for
TypeHolds ==
    {<<"application/msword", "application/msword">>,
     <<"pdf", "application/pdf">>, <<"application/pdf", "application/pdf">>,
     <<"document", "application/vnd.openxmlformats-officedocument.spreadsheetml.sheet">>,
     <<"document", "application/vnd.openxmlformats-officedocument.wordprocessingml.document">>,
     <<"application/vnd.openxmlformats-officedocument.wordprocessingml.document", "application/vnd.openxmlformats-officedocument.wordprocessingml.document">>}

--------------------------------------------------------------------------
(* TextExtractor *)

\* text += page_text + "\n" over the pages: the line break is a blank
JoinPages(pages) == Flatten([i \in 1..Len(pages) |-> pages[i] \o <<"">>])

\* re.sub(r'\s+', ' ', text).strip(): the atoms one blank apart
_clean_extracted_text(text) == IF text = <<>> THEN <<>> ELSE Squeeze(text)

\* PyPDF2 reads the pages before the one it fails at (none fails at 0); after
\* a failure pdfplumber, if it is installed, adds the pages that have text to
\* what PyPDF2 left in text
_extract_from_pdf(file, installed) ==
    LET first == file.pypdf2_fails_at
        text == JoinPages(SubSeq(file.pages, 1, first - 1))
    IN  IF first = 0
        THEN [status |-> "ok", parsers |-> <<"PyPDF2">>,
              value |-> _clean_extracted_text(JoinPages(file.pages))]
        ELSE IF ~installed
        THEN [status |-> "raise", parsers |-> <<"PyPDF2">>,
              value |-> "PDF extraction failed"]
        ELSE IF ~file.pdfplumber_reads
        THEN [status |-> "raise", parsers |-> <<"PyPDF2", "pdfplumber">>,
              value |-> "PDF extraction failed with both methods"]
        ELSE [status |-> "ok", parsers |-> <<"PyPDF2", "pdfplumber">>,
              value |-> _clean_extracted_text(
                  text \o JoinPages(SelectSeq(file.pages,
                                              LAMBDA page : page # <<>>)))]

\* the paragraphs of the document, each followed by a line break
_extract_from_docx(file) ==
    IF file.docx_reads
    THEN [status |-> "ok", parsers |-> <<"docx">>,
          value |-> _clean_extracted_text(JoinPages(file.pages))]
    ELSE [status |-> "raise", parsers |-> <<"docx">>,
          value |-> "DOCX extraction failed"]

\* 'pdf' in file_type.lower(), then 'docx' or 'document' in it
Dispatch(file_type) ==
    IF <<"pdf", LowerType(file_type)>> \in TypeHolds THEN "pdf"
    ELSE IF <<"docx", LowerType(file_type)>> \in TypeHolds
            \/ <<"document", LowerType(file_type)>> \in TypeHolds THEN "docx"
    ELSE "unsupported"

\* any(supported_type in file_type for supported_type in supported_types)
validate_file_type(file_type) ==
    LET supported_types ==
            <<"application/pdf",
              "application/vnd.openxmlformats-officedocument.wordprocessingml.document",
              "application/msword">>
    IN  \E i \in 1..Len(supported_types) :
            <<supported_types[i], file_type>> \in TypeHolds

\* the result of extract_text with the parsers it tried; shown is what it
\* hands to st.error before raising again
extract_text(file, installed) ==
    LET Shown(result) ==
            [status |-> result.status, value |-> result.value,
             parsers |-> result.parsers,
             shown |-> IF result.status = "raise"
                       THEN <<[kind |-> "error", text |-> "Error extracting text"]>>
                       ELSE <<>>]
    IN  CASE Dispatch(file.type) = "pdf" ->
                Shown(_extract_from_pdf(file, installed))
          [] Dispatch(file.type) = "docx" -> Shown(_extract_from_docx(file))
          [] OTHER -> Shown([status |-> "raise", parsers |-> <<>>,
                             value |-> "Unsupported file type"])

--------------------------------------------------------------------------
(* The wizard of the application *)

\* the categories offered at step 1 that the model selects
Categories == {"CA Fresher", "Others"}

\* the documents a user uploads, to which the uploader adds the declared
\* type: the text of the pages, the page PyPDF2 fails at (0: none, 1: it
\* cannot open the file), whether pdfplumber and python-docx can read the file
FileContents ==
    {[pages |-> <<FragAbout, FragEducation>>, pypdf2_fails_at |-> 0,
      pdfplumber_reads |-> TRUE, docx_reads |-> FALSE],
     [pages |-> <<FragAbout, FragEducation>>, pypdf2_fails_at |-> 2,
      pdfplumber_reads |-> TRUE, docx_reads |-> FALSE],
     [pages |-> <<FragAbout, FragEducation>>, pypdf2_fails_at |-> 1,
      pdfplumber_reads |-> FALSE, docx_reads |-> FALSE],
     [pages |-> << <<>>, <<"">> >>, pypdf2_fails_at |-> 0,
      pdfplumber_reads |-> TRUE, docx_reads |-> FALSE],
     [pages |-> <<FragBig>>, pypdf2_fails_at |-> 0,
      pdfplumber_reads |-> TRUE, docx_reads |-> FALSE],
     [pages |-> <<FragSkills>>, pypdf2_fails_at |-> 1,
      pdfplumber_reads |-> FALSE, docx_reads |-> TRUE],
     [pages |-> << <<"">> >>, pypdf2_fails_at |-> 1,
      pdfplumber_reads |-> FALSE, docx_reads |-> TRUE]}

\* the label itself handed on as the key
domain_mapping_get_label(label, default) == label

\* domain_mapping.get(label, default)
domain_mapping_get(label, default) ==
    LET hits == SelectSeq(get_domain_mapping, LAMBDA pair : pair[1] = label)
    IN  IF hits = <<>> THEN default ELSE hits[1][2]

\* what a run of the upload page keeps in local variables
NoRun ==
    [pc |-> "idle", resume_text |-> <<>>, internal_domain |-> "None",
     parsers |-> <<>>, scored |-> 0, error |-> "None", shown |-> <<>>]

\* the session state main() sets up, before any run of the upload page; the
\* uploader holds no file (the file of type "None")
InitialApp ==
    [step |-> 1, category |-> "None", domain |-> "None",
     resume_uploaded |-> FALSE, uploaded_file |-> [type |-> "None"]] @@ NoRun

\* step 1: "Next: Select Domain" with a category selected
SelectCategory(selected_category) ==
    /\ app.pc = "idle" /\ app.step = 1
    /\ app' = [app EXCEPT !.category = selected_category, !.step = 2]
    /\ UNCHANGED <<domains, call, ret, idem>>

\* a Back button that clears the stored category
BackToCategory_clearing ==
    /\ app.pc = "idle" /\ app.step = 2
    /\ app' = [app EXCEPT !.step = 1, !.category = "None"]
    /\ UNCHANGED <<domains, call, ret, idem>>

\* step 2: "Back to Category"
BackToCategory ==
    /\ app.pc = "idle" /\ app.step = 2
    /\ app' = [app EXCEPT !.step = 1]
    /\ UNCHANGED <<domains, call, ret, idem>>

\* step 2: "Next: Upload Resume" with a domain selected
SelectDomain(selected_domain) ==
    /\ app.pc = "idle" /\ app.step = 2
    /\ app' = [app EXCEPT !.domain = selected_domain, !.step = 3]
    /\ UNCHANGED <<domains, call, ret, idem>>

\* step 3: "Back to Domain"; the uploader, the locals of the last run and
\* what the page showed are gone with the page
BackToDomain ==
    /\ app.pc = "idle" /\ app.step = 3
    /\ app' = [step |-> 2, category |-> app.category, domain |-> app.domain,
               resume_uploaded |-> app.resume_uploaded,
               uploaded_file |-> [type |-> "None"]] @@ NoRun
    /\ call' = [op |-> "__init__", domain |-> "", arg |-> <<>>]
    /\ ret' = Return(<<>>)
    /\ idem' = "first"
    /\ UNCHANGED domains

\* step 3: the user puts a file into the uploader, which runs the page with
\* uploaded_file set: a new ResumeScorer, then up to the call of extract_text
Upload(file) ==
    /\ app.pc = "idle" /\ app.step = 3
    /\ app' = [step |-> 3, category |-> app.category, domain |-> app.domain,
               resume_uploaded |-> TRUE, uploaded_file |-> file]
              @@ [NoRun EXCEPT !.pc = "extract_text"]
    /\ call' = [op |-> "__init__", domain |-> "", arg |-> <<>>]
    /\ ret' = Return(<<>>)
    /\ idem' = "first"
    /\ UNCHANGED domains

\* a page that goes on after extract_text has raised
AfterExtraction_continuing(status) == "strip"

\* where the page goes on after extract_text: an exception goes to the
\* except block
AfterExtraction(status) == IF status = "ok" THEN "strip" ELSE "except"

\* a page that takes every text as not empty
IsEmptyText_never(resume_text) == FALSE

\* not resume_text.strip()
IsEmptyText(resume_text) == strip(resume_text) = <<>>

\* resume_text = text_extractor.extract_text(...)
Run_extract_text(installed) ==
    /\ app.pc = "extract_text"
    /\ LET result == extract_text(app.uploaded_file, installed)
       IN  app' = [app EXCEPT
                      !.parsers = result.parsers,
                      !.shown = @ \o result.shown,
                      !.resume_text =
                          IF result.status = "ok" THEN result.value ELSE @,
                      !.error =
                          IF result.status = "ok" THEN @ ELSE result.value,
                      !.pc = AfterExtraction(result.status)]
    /\ UNCHANGED <<domains, call, ret, idem>>

\* if not resume_text.strip(): st.error(...); return; else the domain label
\* is mapped to its internal key
Run_strip ==
    /\ app.pc = "strip"
    /\ app' = IF IsEmptyText(app.resume_text)
              THEN [app EXCEPT
                       !.shown = @ \o <<[kind |-> "error",
                                         text |-> "Could not extract text"]>>,
                       !.error = "Could not extract text",
                       !.pc = "idle"]
              ELSE [app EXCEPT
                       !.internal_domain =
                           domain_mapping_get(app.domain, "general"),
                       !.pc = "score_resume"]
    /\ UNCHANGED <<domains, call, ret, idem>>

\* score_result = resume_scorer.score_resume(resume_text, internal_domain),
\* on the scorer the page constructed for this run
Run_score_resume ==
    /\ app.pc = "score_resume"
    /\ call' = [op |-> "score_resume", domain |-> app.internal_domain,
                arg |-> <<app.resume_text>>]
    /\ ret' = score_resume(InitialDomains, app.resume_text,
                           app.internal_domain)
    /\ idem' = "first"
    /\ app' = [app EXCEPT
                  !.scored = @ + 1,
                  !.error = IF ret'.status = "ok" THEN @ ELSE ret'.status,
                  !.pc = IF ret'.status = "ok" THEN "display" ELSE "except"]
    /\ UNCHANGED domains

\* display_analysis_panel in the left column, display_pdf_preview in the
\* right one
Run_display ==
    /\ app.pc = "display"
    /\ app' = [app EXCEPT
                  !.shown = @ \o <<[kind |-> "panel", text |-> "analysis"],
                                   [kind |-> "preview", text |-> "resume"]>>,
                  !.pc = "idle"]
    /\ UNCHANGED <<domains, call, ret, idem>>

\* except Exception as e: st.error(...); st.info(...)
Run_except ==
    /\ app.pc = "except"
    /\ app' = [app EXCEPT
                  !.shown = @ \o <<[kind |-> "error",
                                    text |-> "Error processing resume"],
                                   [kind |-> "info",
                                    text |-> "Please try uploading a different file"]>>,
                  !.pc = "idle"]
    /\ UNCHANGED <<domains, call, ret, idem>>
--------------------------------------------------------------------------
(* Inputs of the catalog operations *)

\* domain keys handed to the operations: every registered key and two that
\* are not registered
UnknownKeys == {"nope", "Auditing"}
KeyInputs == Range(DomainOrder) \cup UnknownKeys

\* keys handed to add_custom_keywords
AddKeys == {"general", "nope"}

\* keywords handed to add_custom_keywords
KeywordPool == {<<"Foo">>, <<"foo">>, <<"Excel">>}

SeqsUpTo(S, n) == UNION {[1..k -> S] : k \in 0..n}

KeywordLists == SeqsUpTo(KeywordPool, MaxAddLen)

\* texts handed to check_keywords_in_order
CatalogTexts ==
    {<<>>, <<"Excel">>, <<"FOO", "finance", "basics">>,
     <<"risk", "assessment", "audit", "trail">>}

\* queries handed to search_keywords
Queries == {<<"tax">>, <<"FOO">>, <<"audit">>}

--------------------------------------------------------------------------
(* Operations of the catalog *)

Init ==
    /\ domains = InitialDomains
    /\ call = [op |-> "__init__", domain |-> "", arg |-> <<>>]
    /\ ret = Return(<<>>)
    /\ idem = "first"
    /\ app = InitialApp

Call_get_domain_keywords(domain) ==
    /\ call' = [op |-> "get_domain_keywords", domain |-> domain, arg |-> <<>>]
    /\ ret' = get_domain_keywords(domains, domain)
    /\ idem' = "first"
    /\ UNCHANGED <<domains, app>>

Call_search_keywords(query, domain) ==
    /\ call' = [op |-> "search_keywords", domain |-> domain, arg |-> query]
    /\ ret' = search_keywords(domains, query, domain)
    /\ idem' = "first"
    /\ UNCHANGED <<domains, app>>

Call_get_keyword_count(domain) ==
    /\ call' = [op |-> "get_keyword_count", domain |-> domain, arg |-> <<>>]
    /\ ret' = get_keyword_count(domains, domain)
    /\ idem' = "first"
    /\ UNCHANGED <<domains, app>>

Call_add_custom_keywords(domain, keywords) ==
    LET r == add_custom_keywords(domains, domain, keywords)
    IN  /\ call' = [op |-> "add_custom_keywords", domain |-> domain,
                    arg |-> keywords]
        /\ ret' = IF r.status = "ok" THEN Return(<<>>) ELSE Raise(r.status)
        /\ domains' = r.domains
        /\ idem' = "first"
        /\ UNCHANGED app

Call_check_keywords_in_order(text, domain) ==
    /\ call' = [op |-> "check_keywords_in_order", domain |-> domain,
                arg |-> text]
    /\ ret' = check_keywords_in_order(domains, text, domain)
    /\ idem' = "first"
    /\ UNCHANGED <<domains, app>>

CatalogNext ==
    \/ \E d \in KeyInputs : Call_get_domain_keywords(d)
    \/ \E q \in Queries, d \in KeyInputs \cup {""} : Call_search_keywords(q, d)
    \/ \E d \in KeyInputs : Call_get_keyword_count(d)
    \/ \E d \in AddKeys, kws \in KeywordLists : Call_add_custom_keywords(d, kws)
    \/ \E t \in CatalogTexts, d \in KeyInputs : Call_check_keywords_in_order(t, d)

CatalogSpec == Init /\ [][CatalogNext]_vars

--------------------------------------------------------------------------
(* Claims about the catalog *)

Count(s, x) == Cardinality({i \in 1..Len(s) : s[i] = x})

\* s keeps the order of full: s is full with some entries left out
KeepsOrder(s, full) == s = SelectSeq(full, LAMBDA x : x \in Range(s))

ResolvedKeywords == get_domain_keywords(domains, call.domain).value.keywords

\* C3: check_keywords_in_order returns present and missing lists that are
\* disjoint, together hold every keyword of the resolved domain exactly once,
\* keep the definition order, have counts that add up to total_keywords, and
\* report coverage 0 for a domain without keywords.
C3_PartitionExactlyOnce ==
    (call.op = "check_keywords_in_order" /\ ret.status = "ok") =>
        LET present == ret.value.present_keywords
            missing == ret.value.missing_keywords
        IN  /\ Range(present) \cap Range(missing) = {}
            /\ Range(present) \cup Range(missing) = Range(ResolvedKeywords)
            /\ \A kw \in Range(ResolvedKeywords) :
                   Count(present \o missing, kw) = 1
            /\ KeepsOrder(present, ResolvedKeywords)
            /\ KeepsOrder(missing, ResolvedKeywords)
            /\ ret.value.present_count + ret.value.missing_count
                   = ret.value.total_keywords
            /\ (ResolvedKeywords = <<>> => ret.value.coverage_percentage10 = 0)

\* C4: no domain's keyword list holds two entries that are equal ignoring
\* case, after any sequence of add_custom_keywords calls.
C4_NoCaseInsensitiveDuplicates ==
    \A d \in DOMAIN domains :
        \A i, j \in 1..Len(domains[d].keywords) :
            i # j => lower(domains[d].keywords[i]) # lower(domains[d].keywords[j])

\* C5: get_domain_keywords never fails; a registered key yields that domain's
\* data and an unregistered key yields the data of 'general'.
C5_LookupFallsBackToGeneral ==
    call.op = "get_domain_keywords" =>
        /\ ret.status = "ok"
        /\ call.domain \in Range(DomainOrder) => ret.value = domains[call.domain]
        /\ call.domain \notin Range(DomainOrder) => ret.value = domains["general"]

C5_Witness ==
    /\ call.op = "get_domain_keywords"
    /\ call.domain \in UnknownKeys
    /\ ret.status = "ok"
    /\ ret.value.name = "General"
    /\ Len(ret.value.keywords) > Len(InitialDomains["general"].keywords)

\* C6: add_custom_keywords with an unregistered key fails with the
\* unknown-domain error (ValueError) and changes no keyword list.
C6_AddToUnknownDomainFails ==
    [][(call'.op = "add_custom_keywords"
            /\ call'.domain \notin Range(DomainOrder))
        => (ret'.status = "ValueError" /\ domains' = domains)]_vars

C6_Witness ==
    /\ call.op = "add_custom_keywords"
    /\ call.domain \in UnknownKeys
    /\ Len(call.arg) > 0
    /\ ret.status = "ValueError"

ReadOps ==
    {"get_domain_keywords", "search_keywords", "get_keyword_count",
     "check_keywords_in_order"}

\* what the read operation of the last call returns for the default domain
ReadOfDefault ==
    CASE call.op = "get_domain_keywords" ->
            get_domain_keywords(domains, "general")
      [] call.op = "search_keywords" ->
            search_keywords(domains, call.arg, "general")
      [] call.op = "get_keyword_count" ->
            get_keyword_count(domains, "general")
      [] call.op = "check_keywords_in_order" ->
            check_keywords_in_order(domains, call.arg, "general")

\* C7: every read operation called with an unregistered key falls back to the
\* default domain and does not fail.
C7_ReadsFallBack ==
    (call.op \in ReadOps /\ call.domain \in UnknownKeys) =>
        (ret.status = "ok" /\ ret = ReadOfDefault)

--------------------------------------------------------------------------
(* Operations of the scorer *)

\* domain keys handed to score_resume
ScoreKeys == {"general", "auditing", "nope"}

\* what add_custom_keywords is handed between scorings
ScoreAddKeys == {"general", "auditing", "nope"}
ScoreAddLists == {<< <<"foo">> >>}

\* the analyzers of the pipeline that are also called on their own
AnalysisOps == {"_analyze_word_count", "_analyze_certifications"}

Pending == [status |-> "pending", value |-> <<>>]

\* the text of a score_resume call: its fragments one after the other
TextOf(c) == Flatten(c.arg)

\* a caller starts a score_resume call: the domain key is chosen
Compose(domain) ==
    /\ ret.status # "pending"
    /\ call' = [op |-> "score_resume", domain |-> domain, arg |-> <<>>]
    /\ ret' = Pending
    /\ idem' = "first"
    /\ UNCHANGED <<domains, app>>

\* the caller's text grows by one fragment
AppendFragment(f) ==
    /\ call.op \in AnalysisOps \cup {"score_resume"}
    /\ ret.status = "pending"
    /\ Len(call.arg) < MaxFragments
    /\ call' = [call EXCEPT !.arg = Append(@, f)]
    /\ UNCHANGED <<domains, ret, idem, app>>

Call_score_resume ==
    /\ call.op = "score_resume"
    /\ ret.status = "pending"
    /\ ret' = score_resume(domains, TextOf(call), call.domain)
    /\ domains' = score_resume_domains(domains, TextOf(call), call.domain)
    /\ UNCHANGED <<call, idem, app>>

\* the same call once more on the same scorer
Repeat_score_resume ==
    /\ call.op = "score_resume"
    /\ ret.status # "pending"
    /\ idem = "first"
    /\ ret' = score_resume(domains, TextOf(call), call.domain)
    /\ domains' = score_resume_domains(domains, TextOf(call), call.domain)
    /\ idem' = IF ret' = ret THEN "same" ELSE "differs"
    /\ UNCHANGED <<call, app>>

Next ==
    \/ \E d \in ScoreKeys : Compose(d)
    \/ \E f \in Fragments : AppendFragment(f)
    \/ Call_score_resume
    \/ Repeat_score_resume
    \/ \E d \in ScoreAddKeys, kws \in ScoreAddLists :
          ret.status # "pending" /\ Call_add_custom_keywords(d, kws)

Spec == Init /\ [][Next]_vars

--------------------------------------------------------------------------
(* Claims about the scorer *)

Scored == call.op = "score_resume" /\ ret.status # "pending"

SectionScores ==
    <<ret.value.section_scores.about_me, ret.value.section_scores.education,
      ret.value.section_scores.experience, ret.value.section_scores.skills>>

\* C1: for every text and every domain key score_resume returns four section
\* scores, each within 0..10, and a total within 0..100.
C1_ScoresInRange ==
    Scored =>
        /\ ret.status = "ok"
        /\ \A i \in 1..4 : SectionScores[i] \in 0..10
        /\ ret.value.total_score10 \in 0..1000

\* C2: the total returned by score_resume is 2.5 times the sum of the four
\* section scores of the same result (in tenths: 25 times the sum).
C2_TotalIsWeightedSum ==
    (Scored /\ ret.status = "ok") =>
        ret.value.total_score10 =
            25 * (SectionScores[1] + SectionScores[2] + SectionScores[3]
                  + SectionScores[4])

C2_Witness ==
    /\ Scored
    /\ ret.status = "ok"
    /\ Cardinality({i \in 1..4 : SectionScores[i] > 0}) >= 3
    /\ Cardinality(Range(SectionScores)) >= 3
    /\ ret.value.total_score10 > 500

ResultEntries ==
    {"total_score10", "section_scores", "section_feedback", "grammar_issues",
     "word_count_analysis", "hard_skills_analysis", "soft_skills_analysis",
     "certification_analysis", "recommendations", "heatmap_data"}

\* C9: score_resume never raises; for every text and every domain key it
\* returns a result with all four section scores, four feedback records and
\* the grammar, word-count, hard-skill, soft-skill, certification,
\* recommendation and heatmap entries.
C9_NeverRaises ==
    Scored =>
        /\ ret.status = "ok"
        /\ DOMAIN ret.value = ResultEntries
        /\ DOMAIN ret.value.section_scores
               = {"about_me", "education", "experience", "skills"}
        /\ DOMAIN ret.value.section_feedback
               = {"about_me", "education", "experience", "skills"}

\* C10: the grammar overall_score is max(0, 10 - N), N the number of issues
\* detected (total_issues, counted before the list is cut to 15 entries); it
\* is never negative and is 0 when 10 or more issues are detected.
C10_GrammarScore ==
    (Scored /\ ret.status = "ok") =>
        LET g == ret.value.grammar_issues
            N == g.grammar_errors + g.formatting_issues + g.spelling_issues
        IN  /\ g.total_issues = N
            /\ Len(g.issues) = (IF N < 15 THEN N ELSE 15)
            /\ g.overall_score = (IF N < 10 THEN 10 - N ELSE 0)
            /\ g.overall_score >= 0
            /\ (N >= 10 => g.overall_score = 0)

C10_Witness ==
    /\ Scored
    /\ ret.status = "ok"
    /\ ret.value.grammar_issues.total_issues > 15
    /\ Len(ret.value.grammar_issues.issues) = 15
    /\ ret.value.grammar_issues.overall_score = 0


\* C11: the recommendations list returned by score_resume has at most 8
\* entries and no two of its entries are equal.
C11_RecommendationsBounded ==
    (Scored /\ ret.status = "ok") =>
        LET recs == ret.value.recommendations
        IN  /\ Len(recs) <= 8
            /\ \A i, j \in 1..Len(recs) : i # j => recs[i] # recs[j]

\* eight entries returned, and the advice on language, which comes last, is
\* left out although issues were found
C11_Witness ==
    /\ Scored
    /\ ret.status = "ok"
    /\ Len(ret.value.recommendations) = 8
    /\ ret.value.grammar_issues.issues # <<>>
    /\ \A i \in 1..8 :
          ret.value.recommendations[i].text # "Address language issues"

\* C19: for every domain key and every catalog that add_custom_keywords has
\* produced, found_skills followed by missing_skills of the hard-skill analysis
\* hold the keywords of the list that get_domain_keywords returns for the key
\* and no others, and total_available is the length of that list.
C19_HardSkillsOfResolvedDomain ==
    (Scored /\ ret.status = "ok") =>
        LET h == ret.value.hard_skills_analysis
            keywords == get_domain_keywords(domains, call.domain).value.keywords
        IN  /\ Range(h.found_skills \o h.missing_skills) = Range(keywords)
            /\ Len(h.found_skills \o h.missing_skills) = Len(keywords)
            /\ h.total_available = Len(keywords)

\* found and missing hold every term of vocabulary, each term in one of them
Partition(found, missing, vocabulary) ==
    /\ Range(found) \cup Range(missing) = Range(vocabulary)
    /\ Range(found) \cap Range(missing) = {}
    /\ Len(found) + Len(missing) = Len(vocabulary)

\* the keyword list the hard-skill analysis of the call goes through: that of
\* the first key of the catalog that bears the name of the resolved domain
ExaminedKeywords ==
    domains[KeyOfName(domains,
                      get_domain_keywords(domains, call.domain).value.name)
           ].keywords

\* C20: in the hard-skill analysis and in the soft-skill analysis the found
\* list and the missing list partition the reference vocabulary: every term of
\* it is in exactly one of the two lists.
C20_SkillListsPartition ==
    (Scored /\ ret.status = "ok") =>
        /\ Partition(ret.value.hard_skills_analysis.found_skills,
                     ret.value.hard_skills_analysis.missing_skills,
                     ExaminedKeywords)
        /\ Partition(ret.value.soft_skills_analysis.found_skills,
                     ret.value.soft_skills_analysis.missing_skills,
                     soft_skills)

\* C20, amended: the hard-skill lists partition the keyword list the analysis
\* goes through; the soft-skill lists have no term in common and keep the
\* order of the vocabulary, and the missing list holds the first 10 of the
\* terms that are not in the found list, so that a term of the vocabulary is
\* in at most one list, and in none if it is a later absent term.
C20_SkillListsTruncated ==
    (Scored /\ ret.status = "ok") =>
        LET soft == ret.value.soft_skills_analysis
            absent == SelectSeq(soft_skills,
                                LAMBDA skill : skill \notin Range(soft.found_skills))
        IN  /\ Partition(ret.value.hard_skills_analysis.found_skills,
                         ret.value.hard_skills_analysis.missing_skills,
                         ExaminedKeywords)
            /\ soft.found_skills =
                  SelectSeq(soft_skills,
                            LAMBDA skill : skill \in Range(soft.found_skills))
            /\ soft.missing_skills =
                  SubSeq(absent, 1, IF Len(absent) < 10 THEN Len(absent) ELSE 10)

\* a text with some soft skills: ten of the others are reported as missing
\* and the rest of the vocabulary is in neither list
C20_Witness ==
    /\ Scored /\ ret.status = "ok"
    /\ Len(ret.value.soft_skills_analysis.found_skills) >= 3
    /\ Len(ret.value.soft_skills_analysis.missing_skills) = 10
    /\ \E i \in 1..Len(soft_skills) :
          /\ soft_skills[i] \notin Range(ret.value.soft_skills_analysis.found_skills)
          /\ soft_skills[i] \notin Range(ret.value.soft_skills_analysis.missing_skills)
    /\ ret.value.hard_skills_analysis.found_skills # <<>>

\* C22: the grammar checker records at most one issue for each grammar rule
\* and at most one for each spelling pair, however often the pattern matches:
\* no two grammar or spelling issues of a result carry the same description, and
\* grammar_errors does not exceed the number of rules.
C22_OneIssuePerPattern ==
    (Scored /\ ret.status = "ok") =>
        LET g == ret.value.grammar_issues
        IN  /\ \A i, j \in 1..Len(g.issues) :
                  (i # j /\ g.issues[i].type \in {"grammar", "spelling"}) =>
                      g.issues[i] # g.issues[j]
            /\ g.grammar_errors <= Len(grammar_issues)
            /\ g.spelling_issues <= Len(common_mistakes)

\* the list _generate_personalized_recommendations had built before its final
\* loop in the call that returned the result at hand
Generated ==
    generated_recommendations(
        ret.value.section_scores.about_me, ret.value.section_scores.experience,
        ret.value.hard_skills_analysis, ret.value.grammar_issues.issues,
        _clean_text(TextOf(call)), call.domain).value

\* C23: the list of recommendations generated before truncation always holds
\* an item on language: the summary of the issue types when grammar issues
\* exist, the reminder on tense consistency when none exists.
C23_LanguageItemGenerated ==
    (Scored /\ ret.status = "ok") =>
        \E i \in 1..Len(Generated) :
            Generated[i].text =
                (IF ret.value.grammar_issues.issues # <<>>
                 THEN "Address language issues"
                 ELSE "Review for consistency in tense usage")

\* the places of s that hold a value for the first time
FirstSeen(s) == {i \in 1..Len(s) : \A j \in 1..(i - 1) : s[j] # s[i]}

\* the first n distinct values of s, in the order of s
FirstDistinct(s, n) ==
    [k \in 1..(IF Cardinality(FirstSeen(s)) < n
               THEN Cardinality(FirstSeen(s)) ELSE n) |->
        s[CHOOSE i \in FirstSeen(s) :
              Cardinality({j \in FirstSeen(s) : j < i}) = k - 1]]

\* C24: the recommendations returned are the first 8 distinct entries of the
\* generated list in the order of generation: at most 2 critical items come
\* first, the item on the About section precedes the item on the Experience
\* section, the item on language comes last, and no entry is returned while a
\* distinct entry generated before it is dropped.
C24_FirstEightInOrder ==
    (Scored /\ ret.status = "ok") =>
        LET Ordered(generated, recs, critical, about, experience, language) ==
                /\ recs = FirstDistinct(generated, 8)
                /\ FirstN(generated, Len(critical)) = critical
                /\ \A i, j \in 1..Len(generated) :
                      (generated[i] = about /\ generated[j] = experience)
                          => i < j
                /\ \A i \in 1..Len(generated) :
                      generated[i] = language => i = Len(generated)
                /\ \A i, j \in 1..Len(generated) :
                      (i < j /\ generated[j] \in Range(recs)) =>
                          generated[i] \in Range(recs)
            Levelled(text_lower, level) ==
                Ordered(Generated, ret.value.recommendations,
                    FirstN(_identify_missing_critical_elements(
                               text_lower, call.domain), 2),
                    _get_personalized_about_improvement(
                        text_lower, level, _extract_current_roles(text_lower)),
                    _get_personalized_experience_improvement(text_lower, level),
                    _get_personalized_language_improvement(
                        ret.value.grammar_issues.issues, text_lower))
            Lowered(text_lower) ==
                Levelled(text_lower, _detect_experience_level(text_lower).value)
        IN  Lowered(lower(_clean_text(TextOf(call))))

\* nine recommendations were generated, critical ones, the About and the
\* Experience item and the language item among them, and the last is dropped
C24_Witness ==
    /\ Scored
    /\ ret.status = "ok"
    /\ Len(Generated) = 9
    /\ Cardinality(FirstSeen(Generated)) = 9
    /\ ret.value.section_scores.about_me < 7
    /\ ret.value.section_scores.experience < 7
    /\ Generated[9].text = "Address language issues"
    /\ ret.value.recommendations = FirstN(Generated, 8)

\* C25: whenever the raw text given to score_resume holds an email address,
\* the About feedback lists the email among the strengths, and it lists the
\* email as missing only when the raw text holds none.
C25_EmailOfRawTextDetected ==
    (Scored /\ ret.status = "ok") =>
        LET Reported(has_email, feedback) ==
                /\ has_email <=> "Email address provided for contact"
                                     \in Range(feedback.strengths)
                /\ ~has_email <=> "Include a professional email address"
                                      \in Range(feedback.improvements)
        IN  Reported(\E i \in 1..Len(TextOf(call)) :
                         TextOf(call)[i] \in Atoms.Email,
                     ret.value.section_feedback.about_me)

\* what the About scorer and the Experience scorer award points for, by the
\* strength each criterion adds to the feedback when it is met in full
AboutCriteria ==
    {"About section is present", "Optimal length", "Quantifies experience",
     "Establishes expertise level", "Uses impactful action words",
     "Maintains professional third-person tone", "Clear specialization"}

ExperienceCriteria ==
    {"Work experience section is present", "Company names mentioned",
     "Job titles clearly stated", "Employment dates/duration provided",
     "Strong use of action words", "Quantifiable achievements mentioned"}

\* C27: the full range of scores is attainable: a text that meets every
\* criterion of a section scorer in full is given 10 by it, so that a text
\* exists whose total is 100.
C27_FullScoreAttainable ==
    (Scored /\ ret.status = "ok") =>
        /\ AboutCriteria \subseteq Range(ret.value.section_feedback.about_me.strengths)
              => ret.value.section_scores.about_me = 10
        /\ ExperienceCriteria
              \subseteq Range(ret.value.section_feedback.experience.strengths)
              => ret.value.section_scores.experience = 10

--------------------------------------------------------------------------
(* The analyzers of the scorer called on their own *)

\* words appended to the fragments of a text to bring it near the bands of
\* the word-count analysis
PadSizes == {0, 449, 450, 584, 585, 600, 601, 785, 786}

\* domain keys handed to _analyze_certifications
CertKeys == {"auditing", "taxation", "finance", "general", "internal_audit",
             "nope"}

\* the text of an analyzer call: its fragments, then its padding words
AnalysisText(c) == Flatten(c.arg) \o [i \in 1..c.pad |-> "x"]

\* a caller starts a call of an analyzer: the domain key and the padding are
\* chosen
Analyse(op, domain, pad) ==
    /\ ret.status # "pending"
    /\ call' = [op |-> op, domain |-> domain, arg |-> <<>>, pad |-> pad]
    /\ ret' = Pending
    /\ idem' = "first"
    /\ UNCHANGED <<domains, app>>

Call__analyze_word_count ==
    /\ call.op = "_analyze_word_count"
    /\ ret.status = "pending"
    /\ ret' = _analyze_word_count(AnalysisText(call))
    /\ UNCHANGED <<domains, call, idem, app>>

Call__analyze_certifications ==
    /\ call.op = "_analyze_certifications"
    /\ ret.status = "pending"
    /\ ret' = Return(_analyze_certifications(AnalysisText(call), call.domain))
    /\ UNCHANGED <<domains, call, idem, app>>

AnalysisNext ==
    \/ \E pad \in PadSizes : Analyse("_analyze_word_count", "", pad)
    \/ \E d \in CertKeys : Analyse("_analyze_certifications", d, 0)
    \/ \E f \in Fragments : AppendFragment(f)
    \/ Call__analyze_word_count
    \/ Call__analyze_certifications

AnalysisSpec == Init /\ [][AnalysisNext]_vars

--------------------------------------------------------------------------
(* Claims about the analyzers *)

Returned(op) == call.op = op /\ ret.status = "ok"

\* the years values not above 50 that the text of the call mentions
YearsMentioned ==
    LET found == YearPatterns(AnalysisText(call))
    IN  {y \in 0..50 : \E i \in 1..Len(found) :
                          ~IntRefuses(found[i]) /\ DigitsValue(found[i]) = y}

\* C12: with n the word count and M the largest years value not above 50 in
\* the text (0 if none), is_fresher holds exactly when M < 2; the band is
\* 450-600 for a fresher and 600-800 otherwise; is_optimal holds exactly when
\* n is in the band, bounds included, and exactly when status is "optimal";
\* below the band the recommendation names band_min - n words to add, above
\* it n - band_max words to remove.
C12_WordCountBands ==
    Returned("_analyze_word_count") =>
        LET r == ret.value
            n == Cardinality({i \in 1..Len(AnalysisText(call)) :
                                 AnalysisText(call)[i] # ""})
            M == IF YearsMentioned = {} THEN 0
                 ELSE CHOOSE y \in YearsMentioned :
                         \A z \in YearsMentioned : z <= y
            band_min == IF M < 2 THEN 450 ELSE 600
            band_max == IF M < 2 THEN 600 ELSE 800
        IN  /\ r.word_count = n
            /\ r.is_fresher <=> M < 2
            /\ r.target_range = <<band_min, band_max>>
            /\ r.is_optimal <=> (band_min <= n /\ n <= band_max)
            /\ r.is_optimal <=> r.status = "optimal"
            /\ n < band_min =>
                  r.status = "too_short"
                  /\ r.recommendation = <<"expand", band_min - n>>
            /\ n > band_max =>
                  r.status = "too_long"
                  /\ r.recommendation = <<"condense", n - band_max>>

\* a text of an experienced profile that is one word too long
C12_Witness ==
    /\ Returned("_analyze_word_count")
    /\ ~ret.value.is_fresher
    /\ ret.value.word_count = 801
    /\ ret.value.recommendation = <<"condense", 1>>

\* C13: for the domains auditing, taxation and finance every relevant acronym
\* is, in upper case, in exactly one of found_certifications and
\* missing_key_certs, and these lists hold nothing else; value_assessment is
\* "High Value" exactly when found_certifications is not empty; for every
\* other domain key the relevant list and the found list are empty and
\* value_assessment is "Consider Adding".
C13_CertificationPartition ==
    Returned("_analyze_certifications") =>
        LET r == ret.value
            found == Range(r.found_certifications)
            missing == Range(r.missing_key_certs)
            relevant == Range(r.relevant_for_domain)
        IN  /\ r.value_assessment = "High Value" <=> r.found_certifications # <<>>
            /\ r.value_assessment \in {"High Value", "Consider Adding"}
            /\ call.domain \in {"auditing", "taxation", "finance"} =>
                  /\ relevant = Range(cert_mappings(call.domain))
                  /\ relevant # {}
                  /\ found \cup missing = {upper(cert) : cert \in relevant}
                  /\ found \cap missing = {}
            /\ call.domain \notin {"auditing", "taxation", "finance"} =>
                  /\ r.relevant_for_domain = <<>>
                  /\ r.found_certifications = <<>>
                  /\ r.value_assessment = "Consider Adding"

\* a text that names some of the acronyms of auditing and not the others
C13_Witness ==
    /\ Returned("_analyze_certifications")
    /\ call.domain = "auditing"
    /\ ret.value.found_certifications # <<>>
    /\ ret.value.missing_key_certs # <<>>

\* a text that names acronyms, analysed for a key without a certificate list
C13_WitnessOther ==
    /\ Returned("_analyze_certifications")
    /\ call.domain = "internal_audit"
    /\ Contains(lower(AnalysisText(call)), <<"ca">>)
    /\ ret.value.found_certifications = <<>>

UploadNext ==
    \/ \E selected_category \in Categories : SelectCategory(selected_category)
    \/ BackToCategory
    \/ \E selected_domain \in Range(SelectableDomains) :
          SelectDomain(selected_domain)
    \/ BackToDomain
    \/ \E file_type \in FileTypes, content \in FileContents :
          Upload([type |-> file_type] @@ content)
    \/ \E installed \in BOOLEAN : Run_extract_text(installed)
    \/ Run_strip
    \/ Run_score_resume
    \/ Run_display
    \/ Run_except

UploadSpec == Init /\ [][UploadNext]_vars

--------------------------------------------------------------------------
(* Claims about the upload page *)

\* the messages of a kind that the run has shown
ShownOf(kind) == {i \in 1..Len(app.shown) : app.shown[i].kind = kind}

\* extract_text has raised in the run
ExtractionFailed ==
    app.error \in {"Unsupported file type", "PDF extraction failed",
                   "PDF extraction failed with both methods",
                   "DOCX extraction failed"}

\* C14: a text that is empty or blank after extraction stops the run before
\* scoring: score_resume is called with texts that are not blank only, and a
\* run that found its text empty has called no scoring, holds no result and
\* shows no analysis.
C14_EmptyTextNotScored ==
    /\ call.op = "score_resume" =>
          call.arg = <<app.resume_text>> /\ strip(app.resume_text) # <<>>
    /\ app.pc \in {"score_resume", "display"} => strip(app.resume_text) # <<>>
    /\ app.error = "Could not extract text" =>
          /\ app.pc = "idle"
          /\ app.scored = 0
          /\ call.op # "score_resume"
          /\ ShownOf("panel") = {}

\* a document whose pages hold no text has been extracted and turned down
C14_Witness ==
    /\ app.error = "Could not extract text"
    /\ app.parsers = <<"PyPDF2">>
    /\ app.resume_text = <<>>
    /\ Len(app.shown) = 1

\* C15: in a run in which extract_text fails score_resume is not called and
\* neither the analysis panel nor any other part of a result is shown; the run
\* ends with the except block, which calls extract_text and the scorer no more.
C15_FailedExtractionAborts ==
    /\ [](ExtractionFailed =>
             /\ app.pc \in {"except", "idle"}
             /\ app.scored = 0
             /\ call.op # "score_resume"
             /\ ShownOf("panel") = {} /\ ShownOf("preview") = {})
    /\ [][(ExtractionFailed /\ app.pc = "except") =>
             (app'.pc = "idle" /\ app'.error = app.error
              /\ app'.parsers = app.parsers /\ UNCHANGED <<call, ret>>)]_vars

\* both readers of a PDF have failed and the run is over
C15_Witness ==
    /\ app.error = "PDF extraction failed with both methods"
    /\ app.parsers = <<"PyPDF2", "pdfplumber">>
    /\ app.pc = "idle"

\* C16: a run that fails for an unsupported file type, a failed extraction or
\* an empty document shows exactly one error message.
C16_OneErrorMessage ==
    (app.pc = "idle"
     /\ (ExtractionFailed \/ app.error = "Could not extract text")) =>
        Cardinality(ShownOf("error")) = 1

\* the declared types that are PDF or DOCX
PdfOrDocxTypes ==
    {"application/pdf", "APPLICATION/PDF",
     "application/vnd.openxmlformats-officedocument.wordprocessingml.document"}

\* C17: for a declared type that is neither PDF nor DOCX extract_text fails
\* with the unsupported-type error and tries no parser.
C17_UnsupportedTypesNotParsed ==
    (app.uploaded_file.type # "None" /\ app.pc # "extract_text"
     /\ app.uploaded_file.type \notin PdfOrDocxTypes) =>
        (app.error = "Unsupported file type" /\ app.parsers = <<>>)

\* C18: the key handed to score_resume by the page is the key the table
\* gives for the selected label and is registered in the catalog; every label
\* of the selectbox is in the table with a registered key, and a label that
\* is not in the table gives "general".
C18_MappedKeyRegistered ==
    /\ call.op = "score_resume" =>
          /\ call.domain \in DOMAIN domains
          /\ \E i \in 1..Len(get_domain_mapping) :
                get_domain_mapping[i] = <<app.domain, call.domain>>
    /\ \A i \in 1..Len(SelectableDomains) :
          /\ \E j \in 1..Len(get_domain_mapping) :
                get_domain_mapping[j][1] = SelectableDomains[i]
          /\ domain_mapping_get(SelectableDomains[i], "general")
                \in DOMAIN domains
    /\ \A label \in {"None", "Taxation"} :
          domain_mapping_get(label, "general") = "general"

\* a label that shares its key with another label has been scored
C18_Witness ==
    /\ call.op = "score_resume" /\ ret.status = "ok"
    /\ app.domain = "Transfer Pricing"
    /\ call.domain = "direct_tax"

\* C28: in every state of the wizard step is 1, 2 or 3, from step 2 on a
\* category is stored and at step 3 a domain as well; extraction and scoring
\* run only at step 3 with a file in the uploader; a button moves step by
\* exactly one, forwards only with the selection stored, and the Back buttons
\* keep the stored category and domain.
C28_WizardSteps ==
    /\ [](/\ app.step \in {1, 2, 3}
          /\ app.step >= 2 => app.category \in Categories
          /\ app.step = 3 => app.domain \in Range(SelectableDomains)
          /\ (app.pc # "idle" \/ app.parsers # <<>> \/ app.scored > 0
              \/ call.op = "score_resume") =>
                 (app.step = 3 /\ app.uploaded_file.type # "None"))
    /\ [][app'.step # app.step =>
             /\ app'.step \in {app.step - 1, app.step + 1}
             /\ app'.step = 2 /\ app.step = 1 =>
                   (app'.category \in Categories /\ app'.domain = app.domain)
             /\ app'.step = 3 /\ app.step = 2 =>
                   (app'.domain \in Range(SelectableDomains)
                    /\ app'.category = app.category)
             /\ app'.step < app.step =>
                   (app'.category = app.category /\ app'.domain = app.domain)]_vars

\* the user is back at step 1 after a resume was uploaded at step 3: both
\* selections are still stored
C28_Witness ==
    /\ app.step = 1
    /\ app.category \in Categories
    /\ app.domain \in Range(SelectableDomains)
    /\ app.resume_uploaded

\* C29: when PyPDF2 fails after it has read some pages and pdfplumber then
\* reads the file, the text extracted holds the text of each page exactly
\* once, in the order of the pages.
C29_FallbackTextOnce ==
    (/\ app.pc = "strip"
     /\ app.parsers = <<"PyPDF2", "pdfplumber">>
     /\ app.uploaded_file.pypdf2_fails_at > 1) =>
        app.resume_text
            = _clean_extracted_text(JoinPages(app.uploaded_file.pages))

\* C30: validate_file_type and extract_text agree on the declared type of an
\* uploaded file: a type that validate_file_type accepts is handed to a parser
\* by extract_text and not rejected as unsupported, and a type that extract_text
\* hands to a parser is accepted by validate_file_type.
C30_ValidationAgreesWithDispatch ==
    (app.pc \in {"strip", "except"} /\ app.scored = 0) =>
        (validate_file_type(app.uploaded_file.type) <=> app.parsers # <<>>)

--------------------------------------------------------------------------
(* Two threads on one catalog *)

\* a thread about to run op on arg (keywords to add, or a text to check),
\* with the local variables of the two operations
Thread(op, arg) ==
    [op |-> op, arg |-> arg,
     pc |-> IF op = "add_custom_keywords" THEN "existing_keywords" ELSE "for",
     new_keywords |-> <<>>, i |-> 0, present_keywords |-> <<>>,
     missing_keywords |-> <<>>, result |-> "None"]

\* two threads are started on the catalog, the first one adding keywords to
\* domain, the second one adding to it or checking a text against it
StartThreads(domain, first, second) ==
    /\ call.op = "threads" => \A t \in 1..2 : call.arg[t].pc = "done"
    /\ Len(domains[domain].keywords)
          < Len(InitialDomains[domain].keywords) + MaxAdded
    /\ call' = [op |-> "threads", domain |-> domain, arg |-> <<first, second>>]
    /\ ret' = Pending
    /\ idem' = "first"
    /\ UNCHANGED <<domains, app>>

\* add_custom_keywords up to new_keywords = [...]: the keywords that are not
\* in the list as it is now
Add_existing_keywords(t) ==
    /\ call.op = "threads" /\ call.arg[t].pc = "existing_keywords"
    /\ LET old == domains[call.domain].keywords
           extended == extended_keywords(old, call.arg[t].arg)
       IN  call' = [call EXCEPT
                      !.arg[t].new_keywords =
                          SubSeq(extended, Len(old) + 1, Len(extended)),
                      !.arg[t].pc = "extend"]
    /\ UNCHANGED <<domains, ret, idem, app>>

\* self.domains[domain]['keywords'].extend(new_keywords)
Add_extend(t) ==
    /\ call.op = "threads" /\ call.arg[t].pc = "extend"
    /\ domains' = [domains EXCEPT ![call.domain].keywords =
                      @ \o call.arg[t].new_keywords]
    /\ call' = [call EXCEPT !.arg[t].pc = "done"]
    /\ UNCHANGED <<ret, idem, app>>

\* one round of  for keyword in keywords  over the list of the catalog
\* itself: the next keyword, if the list has one by now, goes to one of the
\* two lists
Check_for(t) ==
    /\ call.op = "threads" /\ call.arg[t].pc = "for"
    /\ LET keywords == domains[call.domain].keywords
           i == call.arg[t].i
       IN  call' =
             IF i >= Len(keywords)
             THEN [call EXCEPT !.arg[t].pc = "return"]
             ELSE IF Contains(lower(call.arg[t].arg), lower(keywords[i + 1]))
             THEN [call EXCEPT !.arg[t].i = i + 1,
                               !.arg[t].present_keywords =
                                   Append(@, keywords[i + 1])]
             ELSE [call EXCEPT !.arg[t].i = i + 1,
                               !.arg[t].missing_keywords =
                                   Append(@, keywords[i + 1])]
    /\ UNCHANGED <<domains, ret, idem, app>>

\* the dict returned: len(keywords) is the length of the list by now
Check_return(t) ==
    /\ call.op = "threads" /\ call.arg[t].pc = "return"
    /\ call' = [call EXCEPT
                   !.arg[t].result =
                       [present_keywords |-> call.arg[t].present_keywords,
                        missing_keywords |-> call.arg[t].missing_keywords,
                        total_keywords |-> Len(domains[call.domain].keywords),
                        present_count |-> Len(call.arg[t].present_keywords),
                        missing_count |-> Len(call.arg[t].missing_keywords)],
                   !.arg[t].pc = "done"]
    /\ UNCHANGED <<domains, ret, idem, app>>

--------------------------------------------------------------------------
(* Claims about threads on one catalog *)

ThreadsNext ==
    \/ \E domain \in {"general", "auditing"},
          kws1, kws2 \in {<< <<"foo">> >>, << <<"Foo">> >>, << <<"bar">> >>} :
          StartThreads(domain, Thread("add_custom_keywords", kws1),
                       Thread("add_custom_keywords", kws2))
    \/ \E domain \in {"general", "auditing"},
          kws \in {<< <<"foo">> >>, << <<"bar">> >>},
          text \in {<<"Excel", "and", "foo">>} :
          StartThreads(domain, Thread("add_custom_keywords", kws),
                       Thread("check_keywords_in_order", text))
    \/ \E t \in 1..2 : Add_existing_keywords(t)
    \/ \E t \in 1..2 : Add_extend(t)
    \/ \E t \in 1..2 : Check_for(t)
    \/ \E t \in 1..2 : Check_return(t)

ThreadsSpec == Init /\ [][ThreadsNext]_vars

\* C21: however add_custom_keywords is interleaved with another
\* add_custom_keywords or with check_keywords_in_order on the same catalog, the
\* list of the domain holds no two entries equal ignoring case, and every
\* partition returned has present_count + missing_count = total_keywords.
C21_ConcurrentAdditionSafe ==
    call.op = "threads" =>
        /\ \A i, j \in 1..Len(domains[call.domain].keywords) :
              i # j => lower(domains[call.domain].keywords[i])
                          # lower(domains[call.domain].keywords[j])
        /\ \A t \in 1..2 :
              (call.arg[t].op = "check_keywords_in_order"
               /\ call.arg[t].pc = "done") =>
                  call.arg[t].result.present_count
                      + call.arg[t].result.missing_count
                          = call.arg[t].result.total_keywords

--------------------------------------------------------------------------
(* Claims about the keywords of the catalog in the pipeline *)

\* a caller scores, for a domain of the catalog, a text made of keywords of
\* that domain
KeywordNext ==
    \/ \E d \in DOMAIN InitialDomains : Compose(d)
    \/ \E d \in DOMAIN InitialDomains :
          /\ call.domain = d
          /\ \E f \in Range(InitialDomains[d].keywords) : AppendFragment(f)
    \/ Call_score_resume

KeywordSpec == Init /\ [][KeywordNext]_vars

\* C26: for every domain and every keyword of the domain, score_resume on a
\* raw text that holds the keyword verbatim puts the keyword in found_skills
\* of the hard-skill analysis.
C26_EveryKeywordDetectable ==
    (Scored /\ ret.status = "ok") =>
        \A i \in 1..Len(call.arg) :
            call.arg[i] \in Range(ret.value.hard_skills_analysis.found_skills)
====
